---- MODULE Spec2Model ----
(***************************************************************************)
(* Shell-command safety analyzer of src/infra/exec-approvals-analysis.ts:  *)
(* the pipeline splitter, the chain splitter, the Windows tokenizer and    *)
(* analyzeShellCommand / analyzeArgvCommand, as operators over sequences   *)
(* of one-character strings.  Indices are 1-based; the source's 0-based    *)
(* index k is k + 1 here.                                                  *)
(***************************************************************************)
EXTENDS Integers, Sequences, FiniteSets, TLC

VARIABLES op, command, platform, argv, input, pc, result, tui, run

vars == <<op, command, platform, argv, input, pc, result, tui, run>>

\* undefined / null of the source
None == "<none>"

\* The characters with a meaning to the scanners.  A string is a sequence of
\* one-character strings; the grave accent (command substitution) is the
\* atom BT, which the module language cannot write as a literal.
SQ == "'"
DQ == "\""
BS == "\\"
BT == "[grave]"
NL == "\n"
CR == "\r"
TAB == "\t"

\* command[i] of the source: undefined outside the string
At(s, i) == IF i >= 1 /\ i <= Len(s) THEN s[i] ELSE None

\* /\s/ and the characters String.prototype.trim() removes
IsSpace(ch) == ch \in {" ", TAB, NL, CR}

RECURSIVE TrimLeft(_)
TrimLeft(s) == IF s # <<>> /\ IsSpace(Head(s)) THEN TrimLeft(Tail(s)) ELSE s

RECURSIVE TrimRight(_)
TrimRight(s) ==
  IF s # <<>> /\ IsSpace(s[Len(s)]) THEN TrimRight(SubSeq(s, 1, Len(s) - 1)) ELSE s

\* String.prototype.trim()
Trim(s) == TrimRight(TrimLeft(s))

\* line.replace(/^\t+/, "")
RECURSIVE StripLeadingTabs(_)
StripLeadingTabs(s) ==
  IF s # <<>> /\ Head(s) = TAB THEN StripLeadingTabs(Tail(s)) ELSE s

DISALLOWED_PIPELINE_TOKENS == {">", "<", BT, NL, CR, "(", ")"}
DOUBLE_QUOTE_ESCAPES == {BS, DQ, "$", BT, NL, CR}
WINDOWS_UNSUPPORTED_TOKENS == {"&", "|", "<", ">", "^", "(", ")", "%", "!", NL, CR}

\* a scanner that knows no backslash escapes inside double quotes
isDoubleQuoteEscapeNever(next) == FALSE

isDoubleQuoteEscape(next) == next # None /\ next \in DOUBLE_QUOTE_ESCAPES

(***************************************************************************)
(* parseHeredocDelimiter(source, start)                                    *)
(***************************************************************************)
NoDelimiter == [found |-> FALSE, delimiter |-> <<>>, end |-> 0, quoted |-> FALSE]

RECURSIVE SkipBlanks(_, _)
SkipBlanks(source, i) ==
  IF i <= Len(source) /\ source[i] \in {" ", TAB} THEN SkipBlanks(source, i + 1) ELSE i

RECURSIVE QuotedDelimiter(_, _, _, _)
QuotedDelimiter(source, i, quote, delimiter) ==
  IF i > Len(source) THEN NoDelimiter
  ELSE LET ch == source[i] IN
    IF ch = NL \/ ch = CR THEN NoDelimiter
    ELSE IF quote = DQ /\ ch = BS /\ i + 1 <= Len(source)
      THEN QuotedDelimiter(source, i + 2, quote, Append(delimiter, source[i + 1]))
    ELSE IF ch = quote
      THEN [found |-> TRUE, delimiter |-> delimiter, end |-> i + 1, quoted |-> TRUE]
    ELSE QuotedDelimiter(source, i + 1, quote, Append(delimiter, ch))

RECURSIVE BareDelimiter(_, _, _)
BareDelimiter(source, i, delimiter) ==
  IF i > Len(source) \/ IsSpace(source[i]) \/ source[i] \in {"|", "&", ";", "<", ">"}
  THEN IF delimiter = <<>> THEN NoDelimiter
       ELSE [found |-> TRUE, delimiter |-> delimiter, end |-> i, quoted |-> FALSE]
  ELSE BareDelimiter(source, i + 1, Append(delimiter, source[i]))

parseHeredocDelimiter(source, start) ==
  LET i == SkipBlanks(source, start) IN
    IF i > Len(source) THEN NoDelimiter
    ELSE IF source[i] = SQ \/ source[i] = DQ
      THEN QuotedDelimiter(source, i + 1, source[i], <<>>)
    ELSE BareDelimiter(source, i, <<>>)

(***************************************************************************)
(* Heredoc body scan                                                       *)
(***************************************************************************)
RECURSIVE SlashesBefore(_, _)
SlashesBefore(line, i) ==
  IF i >= 1 /\ line[i] = BS THEN 1 + SlashesBefore(line, i - 1) ELSE 0

isEscapedInHeredocLine(line, index) == SlashesBefore(line, index - 1) % 2 = 1

hasUnquotedHeredocExpansionToken(line) ==
  \E i \in 1..Len(line) :
    \/ line[i] = BT /\ ~isEscapedInHeredocLine(line, i)
    \/ /\ line[i] = "$"
       /\ ~isEscapedInHeredocLine(line, i)
       /\ At(line, i + 1) \in {"(", "{"}

(***************************************************************************)
(* splitShellPipeline(command): the scan, one loop iteration per Step      *)
(***************************************************************************)
\* a failure reason: the message and, where the source interpolates one,
\* the offending token; <<>> is an absent reason
Reason(text) == <<text>>
UnsupportedToken(token) == <<"unsupported shell token: ", token>>

PipelineFail(reason) == [ok |-> FALSE, reason |-> reason, segments |-> <<>>]

PipelineStart ==
  [i |-> 1, segments |-> <<>>, buf |-> <<>>, inSingle |-> FALSE, inDouble |-> FALSE,
   escaped |-> FALSE, emptySegment |-> FALSE, pendingHeredocs |-> <<>>,
   inHeredocBody |-> FALSE, heredocLine |-> <<>>,
   returned |-> FALSE, ret |-> [ok |-> TRUE, reason |-> <<>>, segments |-> <<>>]]

pushPart(s) ==
  LET trimmed == Trim(s.buf) IN
    [s EXCEPT !.segments = IF trimmed # <<>> THEN Append(@, trimmed) ELSE @,
              !.buf = <<>>]

\* buf += chars; emptySegment = false; continue (skipping skip characters)
Keep(s, chars, skip) ==
  [s EXCEPT !.buf = @ \o chars, !.emptySegment = FALSE, !.i = @ + skip]

\* an early return from inside the loop
Return(s, reason) == [s EXCEPT !.returned = TRUE, !.ret = PipelineFail(reason)]

\* a choice of the heredoc that was opened last
CurrentHeredocLast(pendingHeredocs) == pendingHeredocs[Len(pendingHeredocs)]

\* const current = pendingHeredocs[0]
CurrentHeredoc(pendingHeredocs) == pendingHeredocs[1]

\* the branch taken while inHeredocBody
HeredocBodyStep(cmd, s) ==
  LET ch == cmd[s.i]
      next == At(cmd, s.i + 1)
      hasCurrent == s.pendingHeredocs # <<>>
      current == CurrentHeredoc(s.pendingHeredocs)
      line == IF current.stripTabs THEN StripLeadingTabs(s.heredocLine) ELSE s.heredocLine
      closes == hasCurrent /\ line = current.delimiter
      pending == IF closes THEN Tail(s.pendingHeredocs) ELSE s.pendingHeredocs
  IN
    IF ch = NL \/ ch = CR
    THEN IF hasCurrent /\ ~closes /\ ~current.quoted
              /\ hasUnquotedHeredocExpansionToken(s.heredocLine)
         THEN Return(s, Reason("command substitution in unquoted heredoc"))
         ELSE [s EXCEPT !.pendingHeredocs = pending,
                        !.heredocLine = <<>>,
                        !.inHeredocBody = IF pending = <<>> THEN FALSE ELSE @,
                        !.i = IF ch = CR /\ next = NL THEN @ + 2 ELSE @ + 1]
    ELSE [s EXCEPT !.heredocLine = Append(@, ch), !.i = @ + 1]

\* the branch taken at "<<": the operator, an optional "-", the delimiter
HeredocOperatorStep(cmd, s) ==
  LET stripTabs == At(cmd, s.i + 2) = "-"
      scanIndex == IF stripTabs THEN s.i + 3 ELSE s.i + 2
      parsed == parseHeredocDelimiter(cmd, scanIndex)
      opText == IF stripTabs THEN <<"<", "<", "-">> ELSE <<"<", "<">>
  IN
    IF parsed.found
    THEN [s EXCEPT !.buf = @ \o opText \o SubSeq(cmd, scanIndex, parsed.end - 1),
                   !.emptySegment = FALSE,
                   !.pendingHeredocs =
                     Append(@, [delimiter |-> parsed.delimiter, stripTabs |-> stripTabs,
                                quoted |-> parsed.quoted]),
                   !.i = parsed.end]
    ELSE [s EXCEPT !.buf = @ \o opText, !.emptySegment = FALSE, !.i = @ + 2]

\* a scanner that looks for backticks before it looks at the quote state
SingleQuoteStepScanning(s, ch) ==
  IF ch = BT THEN Return(s, UnsupportedToken(BT))
  ELSE [Keep(s, <<ch>>, 1) EXCEPT !.inSingle = IF ch = SQ THEN FALSE ELSE @]

\* the branch taken while inSingle
SingleQuoteStep(s, ch) ==
  [Keep(s, <<ch>>, 1) EXCEPT !.inSingle = IF ch = SQ THEN FALSE ELSE @]

\* the branch taken while inDouble
DoubleQuoteStep(s, ch, next) ==
  IF ch = BS /\ isDoubleQuoteEscape(next) THEN Keep(s, <<ch, next>>, 2)
  ELSE IF ch = "$" /\ next = "(" THEN Return(s, UnsupportedToken("$()"))
  ELSE IF ch = BT THEN Return(s, UnsupportedToken(BT))
  ELSE IF ch = NL \/ ch = CR THEN Return(s, UnsupportedToken("newline"))
  ELSE [Keep(s, <<ch>>, 1) EXCEPT !.inDouble = IF ch = DQ THEN FALSE ELSE @]

\* the rest of the loop body: unquoted, unescaped text
NormalStep(cmd, s) ==
  LET ch == cmd[s.i]
      next == At(cmd, s.i + 1)
  IN
    IF ch = SQ THEN [Keep(s, <<ch>>, 1) EXCEPT !.inSingle = TRUE]
    ELSE IF ch = DQ THEN [Keep(s, <<ch>>, 1) EXCEPT !.inDouble = TRUE]
    ELSE IF (ch = NL \/ ch = CR) /\ s.pendingHeredocs # <<>>
      THEN [s EXCEPT !.inHeredocBody = TRUE, !.heredocLine = <<>>,
                     !.i = IF ch = CR /\ next = NL THEN @ + 2 ELSE @ + 1]
    ELSE IF ch = "|" /\ next = "|" THEN Return(s, UnsupportedToken("||"))
    ELSE IF ch = "|" /\ next = "&" THEN Return(s, UnsupportedToken("|&"))
    ELSE IF ch = "|"
      THEN [pushPart(s) EXCEPT !.emptySegment = TRUE, !.i = @ + 1]
    ELSE IF ch = "&" \/ ch = ";" THEN Return(s, UnsupportedToken(ch))
    ELSE IF ch = "<" /\ next = "<" THEN HeredocOperatorStep(cmd, s)
    ELSE IF ch \in DISALLOWED_PIPELINE_TOKENS THEN Return(s, UnsupportedToken(ch))
    ELSE IF ch = "$" /\ next = "(" THEN Return(s, UnsupportedToken("$()"))
    ELSE Keep(s, <<ch>>, 1)

\* a test that takes a backslash for an escape inside quotes too
StartsEscapeAnywhere(s, ch) == ch = BS

\* if (!inSingle && !inDouble && ch === "\\")
StartsEscape(s, ch) == ~s.inSingle /\ ~s.inDouble /\ ch = BS

\* one iteration of the for loop over command
PipelineStep(cmd, s) ==
  LET ch == cmd[s.i]
      next == At(cmd, s.i + 1)
  IN
    IF s.inHeredocBody THEN HeredocBodyStep(cmd, s)
    ELSE IF s.escaped THEN [Keep(s, <<ch>>, 1) EXCEPT !.escaped = FALSE]
    ELSE IF StartsEscape(s, ch)
      THEN [Keep(s, <<ch>>, 1) EXCEPT !.escaped = TRUE]
    ELSE IF s.inSingle THEN SingleQuoteStep(s, ch)
    ELSE IF s.inDouble THEN DoubleQuoteStep(s, ch, next)
    ELSE NormalStep(cmd, s)

RECURSIVE PipelineScan(_, _)
PipelineScan(cmd, s) ==
  IF s.returned \/ s.i > Len(cmd) THEN s ELSE PipelineScan(cmd, PipelineStep(cmd, s))

\* the code after the loop (source lines 578-605)
PipelineFinish(s0) ==
  LET current == s0.pendingHeredocs[1]
      line == IF current.stripTabs THEN StripLeadingTabs(s0.heredocLine) ELSE s0.heredocLine
      closes == s0.inHeredocBody /\ s0.pendingHeredocs # <<>> /\ line = current.delimiter
      pending == IF closes THEN Tail(s0.pendingHeredocs) ELSE s0.pendingHeredocs
      inBody == IF closes /\ pending = <<>> THEN FALSE ELSE s0.inHeredocBody
      s == pushPart(s0)
  IN
    IF pending # <<>> \/ inBody THEN PipelineFail(Reason("unterminated heredoc"))
    ELSE IF s0.escaped \/ s0.inSingle \/ s0.inDouble
      THEN PipelineFail(Reason("unterminated shell quote/escape"))
    ELSE IF s.emptySegment \/ s.segments = <<>>
      THEN PipelineFail(Reason(IF s.segments = <<>> THEN "empty command"
                                                     ELSE "empty pipeline segment"))
    ELSE [ok |-> TRUE, reason |-> <<>>, segments |-> s.segments]

splitShellPipeline(cmd) ==
  LET s == PipelineScan(cmd, PipelineStart) IN
    IF s.returned THEN s.ret ELSE PipelineFinish(s)

(***************************************************************************)
(* splitCommandChainWithOperators(command)                                 *)
(***************************************************************************)
ChainStart ==
  [i |-> 1, parts |-> <<>>, buf |-> <<>>, inSingle |-> FALSE, inDouble |-> FALSE,
   escaped |-> FALSE, foundChain |-> FALSE, invalidChain |-> FALSE]

\* pushPart(opToNext) followed by the caller's "if (!pushPart(..)) invalidChain = true"
chainPushPart(s, opToNext) ==
  LET trimmed == Trim(s.buf) IN
    [s EXCEPT !.buf = <<>>,
              !.parts = IF trimmed = <<>> THEN @
                        ELSE Append(@, [part |-> trimmed, opToNext |-> opToNext]),
              !.invalidChain = IF trimmed = <<>> THEN TRUE ELSE @]

ChainKeep(s, chars, skip) == [s EXCEPT !.buf = @ \o chars, !.i = @ + skip]

ChainStep(cmd, s) ==
  LET ch == cmd[s.i]
      next == At(cmd, s.i + 1)
  IN
    IF s.escaped THEN [ChainKeep(s, <<ch>>, 1) EXCEPT !.escaped = FALSE]
    ELSE IF ~s.inSingle /\ ~s.inDouble /\ ch = BS
      THEN [ChainKeep(s, <<ch>>, 1) EXCEPT !.escaped = TRUE]
    ELSE IF s.inSingle
      THEN [ChainKeep(s, <<ch>>, 1) EXCEPT !.inSingle = IF ch = SQ THEN FALSE ELSE @]
    ELSE IF s.inDouble THEN
      IF ch = BS /\ isDoubleQuoteEscape(next) THEN ChainKeep(s, <<ch, next>>, 2)
      ELSE [ChainKeep(s, <<ch>>, 1) EXCEPT !.inDouble = IF ch = DQ THEN FALSE ELSE @]
    ELSE IF ch = SQ THEN [ChainKeep(s, <<ch>>, 1) EXCEPT !.inSingle = TRUE]
    ELSE IF ch = DQ THEN [ChainKeep(s, <<ch>>, 1) EXCEPT !.inDouble = TRUE]
    ELSE IF ch = "&" /\ next = "&"
      THEN [chainPushPart(s, "&&") EXCEPT !.i = @ + 2, !.foundChain = TRUE]
    ELSE IF ch = "|" /\ next = "|"
      THEN [chainPushPart(s, "||") EXCEPT !.i = @ + 2, !.foundChain = TRUE]
    ELSE IF ch = ";"
      THEN [chainPushPart(s, ";") EXCEPT !.i = @ + 1, !.foundChain = TRUE]
    ELSE ChainKeep(s, <<ch>>, 1)

RECURSIVE ChainScan(_, _)
ChainScan(cmd, s) == IF s.i > Len(cmd) THEN s ELSE ChainScan(cmd, ChainStep(cmd, s))

\* null is [found |-> FALSE]
NoChain == [found |-> FALSE, parts |-> <<>>]

splitCommandChainWithOperators(cmd) ==
  LET s == ChainScan(cmd, ChainStart)
      trimmed == Trim(s.buf)
      parts == Append(s.parts, [part |-> trimmed, opToNext |-> None])
  IN
    IF ~s.foundChain THEN NoChain
    ELSE IF trimmed = <<>> THEN NoChain
    ELSE IF s.invalidChain \/ parts = <<>> THEN NoChain
    ELSE [found |-> TRUE, parts |-> parts]

\* splitCommandChain(command): the parts without their operators
splitCommandChain(cmd) ==
  LET chain == splitCommandChainWithOperators(cmd) IN
    [found |-> chain.found,
     parts |-> [k \in 1..Len(chain.parts) |-> chain.parts[k].part]]

(***************************************************************************)
(* splitShellArgs(raw) of src/utils/shell-argv.ts: the word splitter the   *)
(* analyzer imports.  Quotes and the backslash of an escape are removed,   *)
(* unquoted whitespace separates tokens, an unterminated quote or escape   *)
(* gives null.                                                             *)
(***************************************************************************)
ArgsStart ==
  [i |-> 1, tokens |-> <<>>, buf |-> <<>>, inSingle |-> FALSE, inDouble |-> FALSE,
   escaped |-> FALSE]

pushToken(s) ==
  [s EXCEPT !.tokens = IF s.buf # <<>> THEN Append(@, s.buf) ELSE @, !.buf = <<>>]

ArgsStep(raw, s) ==
  LET ch == raw[s.i]
      next == At(raw, s.i + 1)
  IN
    IF s.escaped THEN [s EXCEPT !.buf = Append(@, ch), !.escaped = FALSE, !.i = @ + 1]
    ELSE IF ~s.inSingle /\ ~s.inDouble /\ ch = BS
      THEN [s EXCEPT !.escaped = TRUE, !.i = @ + 1]
    ELSE IF s.inSingle
      THEN IF ch = SQ THEN [s EXCEPT !.inSingle = FALSE, !.i = @ + 1]
           ELSE [s EXCEPT !.buf = Append(@, ch), !.i = @ + 1]
    ELSE IF s.inDouble THEN
      IF ch = BS /\ isDoubleQuoteEscape(next)
        THEN [s EXCEPT !.buf = Append(@, next), !.i = @ + 2]
      ELSE IF ch = DQ THEN [s EXCEPT !.inDouble = FALSE, !.i = @ + 1]
      ELSE [s EXCEPT !.buf = Append(@, ch), !.i = @ + 1]
    ELSE IF ch = SQ THEN [s EXCEPT !.inSingle = TRUE, !.i = @ + 1]
    ELSE IF ch = DQ THEN [s EXCEPT !.inDouble = TRUE, !.i = @ + 1]
    ELSE IF IsSpace(ch) THEN [pushToken(s) EXCEPT !.i = @ + 1]
    ELSE [s EXCEPT !.buf = Append(@, ch), !.i = @ + 1]

RECURSIVE ArgsScan(_, _)
ArgsScan(raw, s) == IF s.i > Len(raw) THEN s ELSE ArgsScan(raw, ArgsStep(raw, s))

\* null is [ok |-> FALSE]
splitShellArgs(raw) ==
  LET s == ArgsScan(raw, ArgsStart) IN
    IF s.escaped \/ s.inSingle \/ s.inDouble THEN [ok |-> FALSE, tokens |-> <<>>]
    ELSE [ok |-> TRUE, tokens |-> pushToken(s).tokens]

(***************************************************************************)
(* parseSegmentsFromParts, analyzeShellCommand                             *)
(***************************************************************************)
Segment(raw, args) == [raw |-> raw, argv |-> args]

RECURSIVE parseSegmentsFromParts(_)
parseSegmentsFromParts(parts) ==
  IF parts = <<>> THEN [ok |-> TRUE, segments |-> <<>>]
  ELSE LET parsed == splitShellArgs(Head(parts))
           rest == parseSegmentsFromParts(Tail(parts))
       IN IF ~parsed.ok \/ parsed.tokens = <<>> \/ ~rest.ok
          THEN [ok |-> FALSE, segments |-> <<>>]
          ELSE [ok |-> TRUE,
                segments |-> <<Segment(Head(parts), parsed.tokens)>> \o rest.segments]

\* an ExecCommandAnalysis; chains is present only when hasChains
AnalysisFail(reason) ==
  [ok |-> FALSE, reason |-> reason, segments |-> <<>>, hasChains |-> FALSE, chains |-> <<>>]

AnalysisOk(segments) ==
  [ok |-> TRUE, reason |-> <<>>, segments |-> segments, hasChains |-> FALSE, chains |-> <<>>]

\* an analysis that hands back what it had parsed before the failing part
ChainPartFailPartial(reason, chains, allSegments) ==
  [ok |-> FALSE, reason |-> reason, segments |-> allSegments,
   hasChains |-> chains # <<>>, chains |-> chains]

\* the early returns inside the for loop over chainParts: the chains and
\* segments parsed so far are dropped
ChainPartFail(reason, chains, allSegments) == AnalysisFail(reason)

\* the for loop over chainParts: chains and allSegments so far, or the early return
RECURSIVE AnalyzeChainParts(_, _, _)
AnalyzeChainParts(parts, chains, allSegments) ==
  IF parts = <<>>
  THEN [ok |-> TRUE, reason |-> <<>>, segments |-> allSegments,
        hasChains |-> TRUE, chains |-> chains]
  ELSE LET pipelineSplit == splitShellPipeline(Head(parts))
           segments == parseSegmentsFromParts(pipelineSplit.segments)
       IN IF ~pipelineSplit.ok
            THEN ChainPartFail(pipelineSplit.reason, chains, allSegments)
          ELSE IF ~segments.ok
            THEN ChainPartFail(Reason("unable to parse shell segment"), chains, allSegments)
          ELSE AnalyzeChainParts(Tail(parts), Append(chains, segments.segments),
                                 allSegments \o segments.segments)

(***************************************************************************)
(* Windows mode                                                            *)
(***************************************************************************)
WindowsUnsupportedReason(token) == <<"unsupported windows shell token: ", token>>

\* the first unsupported character ("newline" for a line terminator), or null
RECURSIVE findWindowsUnsupportedToken(_)
findWindowsUnsupportedToken(cmd) ==
  IF cmd = <<>> THEN None
  ELSE IF Head(cmd) \in WINDOWS_UNSUPPORTED_TOKENS
    THEN IF Head(cmd) = NL \/ Head(cmd) = CR THEN "newline" ELSE Head(cmd)
  ELSE findWindowsUnsupportedToken(Tail(cmd))

WindowsStart == [i |-> 1, tokens |-> <<>>, buf |-> <<>>, inDouble |-> FALSE]

\* a tokenizer that splits at every blank, quoted or not
WindowsStepUnquoted(segment, s) ==
  LET ch == segment[s.i] IN
    IF ch = DQ THEN [s EXCEPT !.inDouble = ~@, !.i = @ + 1]
    ELSE IF IsSpace(ch) THEN [pushToken(s) EXCEPT !.i = @ + 1]
    ELSE [s EXCEPT !.buf = Append(@, ch), !.i = @ + 1]

WindowsStep(segment, s) ==
  LET ch == segment[s.i] IN
    IF ch = DQ THEN [s EXCEPT !.inDouble = ~@, !.i = @ + 1]
    ELSE IF ~s.inDouble /\ IsSpace(ch) THEN [pushToken(s) EXCEPT !.i = @ + 1]
    ELSE [s EXCEPT !.buf = Append(@, ch), !.i = @ + 1]

RECURSIVE WindowsScan(_, _)
WindowsScan(segment, s) ==
  IF s.i > Len(segment) THEN s ELSE WindowsScan(segment, WindowsStep(segment, s))

\* null is [ok |-> FALSE]
tokenizeWindowsSegment(segment) ==
  LET s == WindowsScan(segment, WindowsStart)
      tokens == pushToken(s).tokens
  IN IF s.inDouble \/ tokens = <<>> THEN [ok |-> FALSE, tokens |-> <<>>]
     ELSE [ok |-> TRUE, tokens |-> tokens]

analyzeWindowsShellCommand(cmd) ==
  LET unsupported == findWindowsUnsupportedToken(cmd)
      parsed == tokenizeWindowsSegment(cmd)
  IN
    IF unsupported # None THEN AnalysisFail(WindowsUnsupportedReason(unsupported))
    ELSE IF ~parsed.ok \/ parsed.tokens = <<>>
      THEN AnalysisFail(Reason("unable to parse windows command"))
    ELSE AnalysisOk(<<Segment(cmd, parsed.tokens)>>)

\* String(platform ?? "").trim().toLowerCase().startsWith("win")
ToLower(ch) ==
  IF ch = "W" THEN "w" ELSE IF ch = "I" THEN "i" ELSE IF ch = "N" THEN "n" ELSE ch

isWindowsPlatform(p) ==
  LET normalized == Trim(p) IN
    /\ Len(normalized) >= 3
    /\ ToLower(normalized[1]) = "w"
    /\ ToLower(normalized[2]) = "i"
    /\ ToLower(normalized[3]) = "n"

analyzeShellCommand(cmd, p) ==
  LET chainParts == splitCommandChain(cmd)
      split == splitShellPipeline(cmd)
      segments == parseSegmentsFromParts(split.segments)
  IN
    IF isWindowsPlatform(p) THEN analyzeWindowsShellCommand(cmd)
    ELSE IF chainParts.found THEN AnalyzeChainParts(chainParts.parts, <<>>, <<>>)
    ELSE IF ~split.ok THEN AnalysisFail(split.reason)
    ELSE IF ~segments.ok THEN AnalysisFail(Reason("unable to parse shell segment"))
    ELSE AnalysisOk(segments.segments)

(***************************************************************************)
(* analyzeArgvCommand                                                      *)
(***************************************************************************)
\* argv.filter((entry) => entry.trim().length > 0)
RECURSIVE FilterBlank(_)
FilterBlank(args) ==
  IF args = <<>> THEN <<>>
  ELSE IF Trim(Head(args)) # <<>> THEN <<Head(args)>> \o FilterBlank(Tail(args))
  ELSE FilterBlank(Tail(args))

\* argv.join(" ")
RECURSIVE JoinSpace(_)
JoinSpace(args) ==
  IF args = <<>> THEN <<>>
  ELSE IF Len(args) = 1 THEN Head(args)
  ELSE Head(args) \o <<" ">> \o JoinSpace(Tail(args))

analyzeArgvCommand(args) ==
  LET filtered == FilterBlank(args) IN
    IF filtered = <<>> THEN AnalysisFail(Reason("empty argv"))
    ELSE AnalysisOk(<<Segment(JoinSpace(filtered), filtered)>>)

(***************************************************************************)
(* Allowlist patterns: globToRegExp, the regular expression it builds,     *)
(* matchesPattern and matchAllowlist, on a host whose process.platform is  *)
(* not win32.  The regular-expression source is a sequence of characters,  *)
(* as in the code, and is read back the way RegExp reads it.  Patterns are *)
(* drawn from characters other than [ ] ^ $ + ( ) { } and the backslash.   *)
(***************************************************************************)
Uppers ==
  <<"A", "B", "C", "D", "E", "F", "G", "H", "I", "J", "K", "L", "M",
    "N", "O", "P", "Q", "R", "S", "T", "U", "V", "W", "X", "Y", "Z">>
Lowers ==
  <<"a", "b", "c", "d", "e", "f", "g", "h", "i", "j", "k", "l", "m",
    "n", "o", "p", "q", "r", "s", "t", "u", "v", "w", "x", "y", "z">>

LowerChar(ch) ==
  IF \E k \in 1..Len(Uppers) : Uppers[k] = ch
    THEN Lowers[CHOOSE k \in 1..Len(Uppers) : Uppers[k] = ch]
    ELSE ch

toLowerCase(text) == [k \in 1..Len(text) |-> LowerChar(text[k])]

\* ch.replace(/[.*+?^${}()|[\\]\\\\]/g, "\\$&"): the expression is a
\* character class followed by two backslashes and "]", four characters in
\* all, so in the one-character string ch it finds nothing to replace
EscapeRegExpChar(ch) == <<ch>>

RECURSIVE GlobScan(_, _, _)
GlobScan(pattern, i, regex) ==
  IF i > Len(pattern) THEN regex \o <<"$">>
  ELSE LET ch == pattern[i] IN
    IF ch = "*" THEN
      IF At(pattern, i + 1) = "*"
        THEN GlobScan(pattern, i + 2, regex \o <<".", "*">>)
        ELSE GlobScan(pattern, i + 1, regex \o <<"[", "^", "/", "]", "*">>)
    ELSE IF ch = "?" THEN GlobScan(pattern, i + 1, regex \o <<".">>)
    ELSE GlobScan(pattern, i + 1, regex \o EscapeRegExpChar(ch))

\* the source of the regular expression; its flag is "i"
globToRegExp(pattern) == GlobScan(pattern, 1, <<"^">>)

\* new RegExp(source, "i"): the alternatives separated by "|", each a
\* sequence of items: the assertions ^ and $, the atoms . and [^/] and
\* literal characters, an atom possibly followed by *
RegexItem(kind, ch, star) == [kind |-> kind, ch |-> ch, star |-> star]

RECURSIVE RegexParse(_, _, _, _)
RegexParse(source, i, cur, alts) ==
  IF i > Len(source) THEN Append(alts, cur)
  ELSE LET ch == source[i] IN
    IF ch = "|" THEN RegexParse(source, i + 1, <<>>, Append(alts, cur))
    ELSE IF ch = "^" THEN RegexParse(source, i + 1, Append(cur, RegexItem("start", ch, FALSE)), alts)
    ELSE IF ch = "$" THEN RegexParse(source, i + 1, Append(cur, RegexItem("end", ch, FALSE)), alts)
    ELSE
      LET isClass == ch = "["
          after == IF isClass THEN i + 4 ELSE i + 1
          star == At(source, after) = "*"
          kind == IF isClass THEN "notslash" ELSE IF ch = "." THEN "any" ELSE "char"
      IN RegexParse(source, IF star THEN after + 1 ELSE after,
                    Append(cur, RegexItem(kind, ch, star)), alts)

AtomMatches(item, ch) ==
  CASE item.kind = "any" -> ch \notin {NL, CR}
    [] item.kind = "notslash" -> ch # "/"
    [] OTHER -> LowerChar(ch) = LowerChar(item.ch)

\* the items from k on match the text from position i on
RECURSIVE MatchHere(_, _, _, _)
MatchHere(items, k, text, i) ==
  IF k > Len(items) THEN TRUE
  ELSE LET item == items[k] IN
    IF item.kind = "start" THEN i = 1 /\ MatchHere(items, k + 1, text, i)
    ELSE IF item.kind = "end" THEN i = Len(text) + 1 /\ MatchHere(items, k + 1, text, i)
    ELSE IF item.star
      THEN \E j \in i..(Len(text) + 1) :
             /\ \A m \in i..(j - 1) : AtomMatches(item, text[m])
             /\ MatchHere(items, k + 1, text, j)
    ELSE /\ i <= Len(text)
         /\ AtomMatches(item, text[i])
         /\ MatchHere(items, k + 1, text, i + 1)

\* regex.test(target)
RegexTest(source, target) ==
  LET alts == RegexParse(source, 1, <<>>, <<>>)
  IN \E a \in 1..Len(alts) : \E start \in 1..(Len(target) + 1) :
       MatchHere(alts[a], 1, target, start)

\* value.replace(/\\\\/g, "/"): every pair of backslashes becomes a slash
RECURSIVE ReplaceBackslashPairs(_)
ReplaceBackslashPairs(value) ==
  IF value = <<>> THEN <<>>
  ELSE IF Len(value) >= 2 /\ value[1] = BS /\ value[2] = BS
    THEN <<"/">> \o ReplaceBackslashPairs(SubSeq(value, 3, Len(value)))
  ELSE <<Head(value)>> \o ReplaceBackslashPairs(Tail(value))

normalizeMatchTarget(value) == toLowerCase(ReplaceBackslashPairs(value))

\* home-dir.ts: a leading "~" stands for the home directory
HomeDir == <<"/", "h">>
expandHomePrefix(value) == HomeDir \o Tail(value)

matchesPattern(pattern, target) ==
  LET trimmed == Trim(pattern)
      expanded == IF At(trimmed, 1) = "~" THEN expandHomePrefix(trimmed) ELSE trimmed
  IN /\ trimmed # <<>>
     /\ RegexTest(globToRegExp(normalizeMatchTarget(expanded)),
                  normalizeMatchTarget(target))

Entry(pattern) == [pattern |-> pattern]
NoEntry == [found |-> FALSE, entry |-> Entry(<<>>)]

\* CommandResolution; resolvedPath <<>> is an unset resolvedPath
Resolution(rawExecutable, resolvedPath, executableName) ==
  [isNull |-> FALSE, rawExecutable |-> rawExecutable,
   resolvedPath |-> resolvedPath, executableName |-> executableName]
NullResolution ==
  [isNull |-> TRUE, rawExecutable |-> <<>>, resolvedPath |-> <<>>,
   executableName |-> <<>>]

Includes(text, ch) == \E i \in 1..Len(text) : text[i] = ch

\* a matcher that takes name-only patterns too
hasPathAlways(pattern) == TRUE

hasPath(pattern) ==
  Includes(pattern, "/") \/ Includes(pattern, BS) \/ Includes(pattern, "~")

\* the for loop over entries
RECURSIVE MatchEntries(_, _)
MatchEntries(entries, resolvedPath) ==
  IF entries = <<>> THEN NoEntry
  ELSE LET entry == Head(entries)
           pattern == Trim(entry.pattern)
       IN IF pattern = <<>> THEN MatchEntries(Tail(entries), resolvedPath)
          ELSE IF ~hasPath(pattern) THEN MatchEntries(Tail(entries), resolvedPath)
          ELSE IF matchesPattern(pattern, resolvedPath)
            THEN [found |-> TRUE, entry |-> entry]
          ELSE MatchEntries(Tail(entries), resolvedPath)

\* a matcher that takes the first entry whatever the path
matchAllowlistFirst(entries, resolution) ==
  IF entries = <<>> THEN NoEntry ELSE [found |-> TRUE, entry |-> Head(entries)]

matchAllowlist(entries, resolution) ==
  IF entries = <<>> \/ resolution.isNull \/ resolution.resolvedPath = <<>>
    THEN NoEntry
    ELSE MatchEntries(entries, resolution.resolvedPath)

(***************************************************************************)
(* parseExecArgvToken(raw).  A token is a record of all the fields of the  *)
(* ExecArgvToken variants; a field its variant does not have is empty.     *)
(***************************************************************************)
ArgvToken(kind, raw) ==
  [kind |-> kind, raw |-> raw, style |-> "", flag |-> <<>>,
   hasInlineValue |-> FALSE, inlineValue |-> <<>>, cluster |-> <<>>, flags |-> <<>>]

\* an indexOf that finds the last occurrence
IndexOfLast(text, ch) ==
  IF \E i \in 1..Len(text) : text[i] = ch
    THEN CHOOSE i \in 1..Len(text) :
           text[i] = ch /\ \A j \in (i + 1)..Len(text) : text[j] # ch
    ELSE 0

\* text.indexOf(ch), 1-based; 0 when ch does not occur (the source's -1)
IndexOf(text, ch) ==
  IF \E i \in 1..Len(text) : text[i] = ch
    THEN CHOOSE i \in 1..Len(text) :
           text[i] = ch /\ \A j \in 1..(i - 1) : text[j] # ch
    ELSE 0

parseExecArgvToken(raw) ==
  IF raw = <<>> THEN ArgvToken("empty", raw)
  ELSE IF raw = <<"-", "-">> THEN ArgvToken("terminator", raw)
  ELSE IF raw = <<"-">> THEN ArgvToken("stdin", raw)
  ELSE IF raw[1] # "-" THEN ArgvToken("positional", raw)
  ELSE IF At(raw, 2) = "-" THEN
    LET eqIndex == IndexOf(raw, "=") IN
      IF eqIndex > 1
        THEN [ArgvToken("option", raw) EXCEPT
                !.style = "long",
                !.flag = SubSeq(raw, 1, eqIndex - 1),
                !.hasInlineValue = TRUE,
                !.inlineValue = SubSeq(raw, eqIndex + 1, Len(raw))]
        ELSE [ArgvToken("option", raw) EXCEPT !.style = "long", !.flag = raw]
  ELSE
    LET cluster == Tail(raw) IN
      [ArgvToken("option", raw) EXCEPT
         !.style = "short-cluster",
         !.cluster = cluster,
         !.flags = [k \in 1..Len(cluster) |-> <<"-", cluster[k]>>]]

(***************************************************************************)
(* Dispatch wrappers (exec-wrapper-resolution): env unwrapping and the     *)
(* inline command of a shell wrapper.  An argv is a sequence of strings;   *)
(* a null result is a record with found = FALSE.                           *)
(***************************************************************************)
MAX_DISPATCH_WRAPPER_DEPTH == 4

POSIX_SHELL_WRAPPERS ==
  { <<"a", "s", "h">>, <<"b", "a", "s", "h">>,
    <<"d", "a", "s", "h">>, <<"f", "i", "s", "h">>,
    <<"k", "s", "h">>, <<"s", "h">>,
    <<"z", "s", "h">> }
WINDOWS_CMD_WRAPPERS ==
  { <<"c", "m", "d", ".", "e", "x", "e">>, <<"c", "m", "d">> }
POWERSHELL_WRAPPERS ==
  { <<"p", "o", "w", "e", "r", "s", "h", "e", "l", "l">>, <<"p", "o", "w", "e", "r", "s", "h", "e", "l", "l", ".", "e", "x", "e">>,
    <<"p", "w", "s", "h">>, <<"p", "w", "s", "h", ".", "e", "x", "e">> }
POSIX_INLINE_COMMAND_FLAGS ==
  { <<"-", "l", "c">>, <<"-", "c">>,
    <<"-", "-", "c", "o", "m", "m", "a", "n", "d">> }
POWERSHELL_INLINE_COMMAND_FLAGS ==
  { <<"-", "c">>, <<"-", "c", "o", "m", "m", "a", "n", "d">>,
    <<"-", "-", "c", "o", "m", "m", "a", "n", "d">> }
ENV_OPTIONS_WITH_VALUE ==
  { <<"-", "u">>, <<"-", "-", "u", "n", "s", "e", "t">>,
    <<"-", "c">>, <<"-", "-", "c", "h", "d", "i", "r">>,
    <<"-", "s">>, <<"-", "-", "s", "p", "l", "i", "t", "-", "s", "t", "r", "i", "n", "g">>,
    <<"-", "-", "d", "e", "f", "a", "u", "l", "t", "-", "s", "i", "g", "n", "a", "l">>, <<"-", "-", "i", "g", "n", "o", "r", "e", "-", "s", "i", "g", "n", "a", "l">>,
    <<"-", "-", "b", "l", "o", "c", "k", "-", "s", "i", "g", "n", "a", "l">> }
ENV_FLAG_OPTIONS ==
  { <<"-", "i">>, <<"-", "-", "i", "g", "n", "o", "r", "e", "-", "e", "n", "v", "i", "r", "o", "n", "m", "e", "n", "t">>,
    <<"-", "0">>, <<"-", "-", "n", "u", "l", "l">> }
\* the prefixes of an env option written together with its value
ENV_ATTACHED_VALUE_PREFIXES ==
  { <<"-", "u">>, <<"-", "c">>,
    <<"-", "s">>, <<"-", "-", "u", "n", "s", "e", "t", "=">>,
    <<"-", "-", "c", "h", "d", "i", "r", "=">>, <<"-", "-", "s", "p", "l", "i", "t", "-", "s", "t", "r", "i", "n", "g", "=">>,
    <<"-", "-", "d", "e", "f", "a", "u", "l", "t", "-", "s", "i", "g", "n", "a", "l", "=">>, <<"-", "-", "i", "g", "n", "o", "r", "e", "-", "s", "i", "g", "n", "a", "l", "=">>,
    <<"-", "-", "b", "l", "o", "c", "k", "-", "s", "i", "g", "n", "a", "l", "=">> }
EnvName == <<"e", "n", "v">>
CmdFlag == <<"/", "c">>

\* a prefix test that takes the whole text only
HasPrefixWhole(text, prefix) == text = prefix

HasPrefix(text, prefix) ==
  Len(text) >= Len(prefix) /\ SubSeq(text, 1, Len(prefix)) = prefix

\* argv[i]?.trim() ?? "", with the source's 0-based i + 1
TokenAt(args, i) == IF i >= 1 /\ i <= Len(args) THEN Trim(args[i]) ELSE <<>>

\* text.split("=", 2)[0]
BeforeEquals(text) ==
  IF IndexOf(text, "=") = 0 THEN text ELSE SubSeq(text, 1, IndexOf(text, "=") - 1)

IsLetter(ch) ==
  (\E k \in 1..Len(Uppers) : Uppers[k] = ch) \/ (\E k \in 1..Len(Lowers) : Lowers[k] = ch)
IsDigit(ch) == ch \in {"0", "1", "2", "3", "4", "5", "6", "7", "8", "9"}

\* /^[A-Za-z_][A-Za-z0-9_]*=.*/.test(token)
isEnvAssignment(token) ==
  \E e \in 2..Len(token) :
    /\ token[e] = "="
    /\ IsLetter(token[1]) \/ token[1] = "_"
    /\ \A k \in 2..(e - 1) : IsLetter(token[k]) \/ IsDigit(token[k]) \/ token[k] = "_"

\* path.posix.basename / path.win32.basename: the text after the last
\* separator, trailing separators dropped; win32 also drops a drive prefix
RECURSIVE DropTrailing(_, _)
DropTrailing(text, seps) ==
  IF text # <<>> /\ text[Len(text)] \in seps
    THEN DropTrailing(SubSeq(text, 1, Len(text) - 1), seps)
    ELSE text

RECURSIVE AfterLast(_, _)
AfterLast(text, seps) ==
  IF text = <<>> \/ text[Len(text)] \in seps THEN <<>>
  ELSE Append(AfterLast(SubSeq(text, 1, Len(text) - 1), seps), text[Len(text)])

PosixBasename(text) == AfterLast(DropTrailing(text, {"/"}), {"/"})

Win32Basename(text) ==
  LET rest == IF Len(text) >= 2 /\ IsLetter(text[1]) /\ text[2] = ":"
                THEN SubSeq(text, 3, Len(text)) ELSE text
  IN AfterLast(DropTrailing(rest, {"/", BS}), {"/", BS})

basenameLower(token) ==
  LET win == Win32Basename(token)
      posix == PosixBasename(token)
      base == IF Len(win) < Len(posix) THEN win ELSE posix
  IN toLowerCase(Trim(base))

\* normalizeRawCommand: [found |-> FALSE] is null
NoText == [found |-> FALSE, text |-> <<>>]
SomeText(text) == [found |-> TRUE, text |-> text]

\* a normalisation that keeps the raw command as given
normalizeRawCommandAsGiven(rawCommand) == rawCommand

normalizeRawCommand(rawCommand) ==
  IF rawCommand.found /\ Trim(rawCommand.text) # <<>>
    THEN SomeText(Trim(rawCommand.text)) ELSE NoText

NoArgv == [found |-> FALSE, argv |-> <<>>]

\* one iteration of the while loop of unwrapEnvInvocation, on the state
\* [idx, expectsOptionValue, stop]; stop is "" while the loop goes on,
\* "break" after a break and "null" after return null
EnvStep(args, s) ==
  LET token == TokenAt(args, s.idx)
      lower == toLowerCase(token)
      flag == BeforeEquals(lower)
      skip == [s EXCEPT !.idx = @ + 1]
  IN
    IF token = <<>> THEN skip
    ELSE IF s.expectsOptionValue THEN [skip EXCEPT !.expectsOptionValue = FALSE]
    ELSE IF token = <<"-", "-">> \/ token = <<"-">> THEN [skip EXCEPT !.stop = "break"]
    ELSE IF isEnvAssignment(token) THEN skip
    ELSE IF token[1] = "-" THEN
      IF flag \in ENV_FLAG_OPTIONS THEN skip
      ELSE IF flag \in ENV_OPTIONS_WITH_VALUE
        THEN [skip EXCEPT !.expectsOptionValue = ~Includes(lower, "=")]
      ELSE IF \E pre \in ENV_ATTACHED_VALUE_PREFIXES : HasPrefix(lower, pre) THEN skip
      ELSE [s EXCEPT !.stop = "null"]
    ELSE [s EXCEPT !.stop = "break"]

RECURSIVE EnvScan(_, _)
EnvScan(args, s) ==
  IF s.idx > Len(args) \/ s.stop # "" THEN s ELSE EnvScan(args, EnvStep(args, s))

unwrapEnvInvocation(args) ==
  LET s == EnvScan(args, [idx |-> 2, expectsOptionValue |-> FALSE, stop |-> ""])
  IN IF s.stop = "null" THEN NoArgv
     ELSE IF s.idx <= Len(args)
       THEN [found |-> TRUE, argv |-> SubSeq(args, s.idx, Len(args))]
     ELSE NoArgv

\* the for loop of unwrapDispatchWrappersForResolution, from depth on
RECURSIVE UnwrapFrom(_, _, _)
UnwrapFrom(current, depth, maxDepth) ==
  IF depth >= maxDepth THEN current
  ELSE LET token0 == TokenAt(current, 1)
           unwrapped == unwrapEnvInvocation(current)
       IN IF token0 = <<>> THEN current
          ELSE IF basenameLower(token0) # EnvName THEN current
          ELSE IF ~unwrapped.found \/ unwrapped.argv = <<>> THEN current
          ELSE UnwrapFrom(unwrapped.argv, depth + 1, maxDepth)

\* an unwrapper that leaves argv as it is
unwrapDispatchWrappersNever(args) == args

unwrapDispatchWrappersForResolution(args) ==
  UnwrapFrom(args, 0, MAX_DISPATCH_WRAPPER_DEPTH)

\* an extractor that takes the second argument whatever the first is
extractPosixShellInlineCommandAny(args) ==
  IF TokenAt(args, 3) # <<>> THEN SomeText(TokenAt(args, 3)) ELSE NoText

extractPosixShellInlineCommand(args) ==
  LET flag == TokenAt(args, 2)
      cmd == TokenAt(args, 3)
  IN IF flag = <<>> THEN NoText
     ELSE IF toLowerCase(flag) \notin POSIX_INLINE_COMMAND_FLAGS THEN NoText
     ELSE IF cmd # <<>> THEN SomeText(cmd) ELSE NoText

\* argv.findIndex(...), 1-based; 0 when nothing is found
FindCmdFlag(args) ==
  IF \E i \in 1..Len(args) : toLowerCase(Trim(args[i])) = CmdFlag
    THEN CHOOSE i \in 1..Len(args) :
           /\ toLowerCase(Trim(args[i])) = CmdFlag
           /\ \A j \in 1..(i - 1) : toLowerCase(Trim(args[j])) # CmdFlag
    ELSE 0

extractCmdInlineCommand(args) ==
  LET idx == FindCmdFlag(args)
      tail == SubSeq(args, idx + 1, Len(args))
      cmd == Trim(JoinSpace(tail))
  IN IF idx = 0 THEN NoText
     ELSE IF tail = <<>> THEN NoText
     ELSE IF cmd # <<>> THEN SomeText(cmd) ELSE NoText

\* the for loop of extractPowerShellInlineCommand, from the 1-based i on
RECURSIVE PowerShellScan(_, _)
PowerShellScan(args, i) ==
  IF i > Len(args) THEN NoText
  ELSE LET token == TokenAt(args, i)
           lower == toLowerCase(token)
           cmd == TokenAt(args, i + 1)
       IN IF token = <<>> THEN PowerShellScan(args, i + 1)
          ELSE IF lower = <<"-", "-">> THEN NoText
          ELSE IF lower \in POWERSHELL_INLINE_COMMAND_FLAGS
            THEN (IF cmd # <<>> THEN SomeText(cmd) ELSE NoText)
          ELSE PowerShellScan(args, i + 1)

extractPowerShellInlineCommand(args) == PowerShellScan(args, 2)

\* the kind of the first wrapper family that has the name, or "" (null)
findShellWrapperSpec(baseExecutable) ==
  IF baseExecutable \in POSIX_SHELL_WRAPPERS THEN "posix"
  ELSE IF baseExecutable \in WINDOWS_CMD_WRAPPERS THEN "cmd"
  ELSE IF baseExecutable \in POWERSHELL_WRAPPERS THEN "powershell"
  ELSE ""

extractShellWrapperPayload(args, kind) ==
  CASE kind = "posix" -> extractPosixShellInlineCommand(args)
    [] kind = "cmd" -> extractCmdInlineCommand(args)
    [] OTHER -> extractPowerShellInlineCommand(args)

\* { isWrapper, command }; command null is hasCommand = FALSE
NotWrapper == [isWrapper |-> FALSE, hasCommand |-> FALSE, command |-> <<>>]

\* a depth check that never stops the recursion
DepthUnbounded(depth) == FALSE

\* the check at the head of extractShellWrapperCommandInternal
DepthExhausted(depth) == depth >= MAX_DISPATCH_WRAPPER_DEPTH

RECURSIVE extractShellWrapperCommandInternal(_, _, _)
extractShellWrapperCommandInternal(args, rawCommand, depth) ==
  IF DepthExhausted(depth) THEN NotWrapper
  ELSE
    LET token0 == TokenAt(args, 1)
        base0 == basenameLower(token0)
        unwrapped == unwrapEnvInvocation(args)
        wrapper == findShellWrapperSpec(base0)
        payload == extractShellWrapperPayload(args, wrapper)
    IN IF token0 = <<>> THEN NotWrapper
       ELSE IF base0 = EnvName THEN
         IF ~unwrapped.found THEN NotWrapper
         ELSE extractShellWrapperCommandInternal(unwrapped.argv, rawCommand, depth + 1)
       ELSE IF wrapper = "" THEN NotWrapper
       ELSE IF ~payload.found THEN NotWrapper
       ELSE [isWrapper |-> TRUE, hasCommand |-> TRUE,
             command |-> IF rawCommand.found THEN rawCommand.text ELSE payload.text]

extractShellWrapperCommand(args, rawCommand) ==
  extractShellWrapperCommandInternal(args, normalizeRawCommand(rawCommand), 0)

(***************************************************************************)
(* Executable resolution on a POSIX host.  The file system is a function   *)
(* from absolute paths to what is there: "none", "dir", "file" (a regular  *)
(* file the user may not execute) or "exec" (one the user may execute).    *)
(* An environment is a record of the optional variables PATH and Path.     *)
(***************************************************************************)
PathDelimiter == ":"

\* text.split(sep), for a one-character separator
RECURSIVE SplitOn(_, _)
SplitOn(text, sep) ==
  IF ~Includes(text, sep) THEN <<text>>
  ELSE <<SubSeq(text, 1, IndexOf(text, sep) - 1)>>
         \o SplitOn(SubSeq(text, IndexOf(text, sep) + 1, Len(text)), sep)

\* items.join(sep)
RECURSIVE JoinWith(_, _)
JoinWith(items, sep) ==
  IF items = <<>> THEN <<>>
  ELSE IF Len(items) = 1 THEN Head(items)
  ELSE Head(items) \o <<sep>> \o JoinWith(Tail(items), sep)

\* .filter(Boolean) on strings
FilterEmpty(items) == SelectSeq(items, LAMBDA item : item # <<>>)

\* path.posix normalisation of the segments of a path: "" and "." go, ".."
\* takes the segment before it, and stays only in front of a relative path
RECURSIVE NormalizeSegments(_, _, _)
NormalizeSegments(segments, kept, absolute) ==
  IF segments = <<>> THEN kept
  ELSE LET seg == Head(segments)
           up == <<".", ".">>
       IN IF seg = <<>> \/ seg = <<".">>
            THEN NormalizeSegments(Tail(segments), kept, absolute)
          ELSE IF seg = up /\ kept # <<>> /\ kept[Len(kept)] # up
            THEN NormalizeSegments(Tail(segments), SubSeq(kept, 1, Len(kept) - 1), absolute)
          ELSE IF seg = up /\ absolute
            THEN NormalizeSegments(Tail(segments), kept, absolute)
          ELSE NormalizeSegments(Tail(segments), Append(kept, seg), absolute)

\* path.isAbsolute
isAbsolute(p) == p # <<>> /\ p[1] = "/"

\* the normal form of a path that does not end in a separator
NormalizePath(p) ==
  LET inner == JoinWith(NormalizeSegments(SplitOn(p, "/"), <<>>, isAbsolute(p)), "/")
  IN IF isAbsolute(p) THEN <<"/">> \o inner
     ELSE IF inner = <<>> THEN <<".">>
     ELSE inner

\* process.cwd()
ProcessCwd == <<"/", "w">>

\* path.resolve(base, p)
PathResolve(base, p) ==
  IF isAbsolute(p) THEN NormalizePath(p)
  ELSE IF isAbsolute(base) THEN NormalizePath(base \o <<"/">> \o p)
  ELSE NormalizePath(ProcessCwd \o <<"/">> \o base \o <<"/">> \o p)

\* path.join(entry, name), name not empty
PathJoin(entry, name) ==
  IF entry = <<>> THEN NormalizePath(name) ELSE NormalizePath(entry \o <<"/">> \o name)

\* what the file system holds at a path, relative paths taken from the
\* working directory of the process
FileKind(fs, filePath) ==
  LET abs == PathResolve(ProcessCwd, filePath)
  IN IF abs \in DOMAIN fs THEN fs[abs] ELSE "none"

\* a check that takes anything that exists
isExecutableFileAny(fs, filePath) == FileKind(fs, filePath) # "none"

isExecutableFile(fs, filePath) == FileKind(fs, filePath) = "exec"

\* the if at the head of parseFirstToken's quoted branch: indexOf(first, 1)
ClosingQuote(trimmed) ==
  LET rest == Tail(trimmed)
  IN IF Includes(rest, trimmed[1]) THEN IndexOf(rest, trimmed[1]) + 1 ELSE 0

RECURSIVE LeadingNonSpace(_)
LeadingNonSpace(text) ==
  IF text = <<>> \/ IsSpace(Head(text)) THEN <<>>
  ELSE <<Head(text)>> \o LeadingNonSpace(Tail(text))

parseFirstToken(cmd) ==
  LET trimmed == Trim(cmd)
      end == ClosingQuote(trimmed)
  IN IF trimmed = <<>> THEN NoText
     ELSE IF trimmed[1] = DQ \/ trimmed[1] = SQ THEN
       IF end > 2 THEN SomeText(SubSeq(trimmed, 2, end - 1))
       ELSE SomeText(Tail(trimmed))
     ELSE SomeText(LeadingNonSpace(trimmed))

\* env?.PATH ?? env?.Path ?? process.env.PATH ?? process.env.Path ?? ""
EnvPath(env, processEnv) ==
  IF env.PATH.found THEN env.PATH.text
  ELSE IF env.Path.found THEN env.Path.text
  ELSE IF processEnv.PATH.found THEN processEnv.PATH.text
  ELSE IF processEnv.Path.found THEN processEnv.Path.text
  ELSE <<>>

\* the for loop over the PATH entries, with the one extension ""
RECURSIVE SearchPath(_, _, _)
SearchPath(fs, entries, expanded) ==
  IF entries = <<>> THEN NoText
  ELSE IF isExecutableFile(fs, PathJoin(Head(entries), expanded))
    THEN SomeText(PathJoin(Head(entries), expanded))
  ELSE SearchPath(fs, Tail(entries), expanded)

\* cwd is optional: [found |-> FALSE] is undefined
resolveExecutablePath(rawExecutable, cwd, env, world) ==
  LET expanded == IF rawExecutable[1] = "~" THEN expandHomePrefix(rawExecutable)
                  ELSE rawExecutable
      base == IF cwd.found /\ Trim(cwd.text) # <<>> THEN Trim(cwd.text) ELSE ProcessCwd
      candidate == PathResolve(base, expanded)
      entries == FilterEmpty(SplitOn(EnvPath(env, world.processEnv), PathDelimiter))
  IN IF Includes(expanded, "/") \/ Includes(expanded, BS) THEN
       IF isAbsolute(expanded)
         THEN (IF isExecutableFile(world.fs, expanded) THEN SomeText(expanded) ELSE NoText)
         ELSE (IF isExecutableFile(world.fs, candidate) THEN SomeText(candidate) ELSE NoText)
     ELSE SearchPath(world.fs, entries, expanded)

\* a null result is isNull = TRUE; resolvedPath undefined is <<>>
ResolutionOf(rawExecutable, resolvedPath) ==
  Resolution(rawExecutable,
             resolvedPath.text,
             IF resolvedPath.found /\ resolvedPath.text # <<>>
               THEN PosixBasename(resolvedPath.text) ELSE rawExecutable)

resolveCommandResolution(cmd, cwd, env, world) ==
  LET rawExecutable == parseFirstToken(cmd)
  IN IF ~rawExecutable.found \/ rawExecutable.text = <<>> THEN NullResolution
     ELSE ResolutionOf(rawExecutable.text,
                       resolveExecutablePath(rawExecutable.text, cwd, env, world))

resolveCommandResolutionFromArgv(args, cwd, env, world) ==
  LET effectiveArgv == unwrapDispatchWrappersForResolution(args)
      rawExecutable == TokenAt(effectiveArgv, 1)
  IN IF rawExecutable = <<>> THEN NullResolution
     ELSE ResolutionOf(rawExecutable, resolveExecutablePath(rawExecutable, cwd, env, world))

(***************************************************************************)
(* system.run requests (system-run-command): the display text of an argv   *)
(* and its agreement with the raw command the caller declares.             *)
(***************************************************************************)
\* trimmed.replace(/"/g, '\\"')
RECURSIVE EscapeDoubleQuotes(_)
EscapeDoubleQuotes(text) ==
  IF text = <<>> THEN <<>>
  ELSE (IF Head(text) = DQ THEN <<BS, DQ>> ELSE <<Head(text)>>)
         \o EscapeDoubleQuotes(Tail(text))

\* the callback of argv.map in formatExecCommand
FormatArg(arg) ==
  LET trimmed == Trim(arg)
      needsQuotes == \E i \in 1..Len(trimmed) : IsSpace(trimmed[i]) \/ trimmed[i] = DQ
  IN IF trimmed = <<>> THEN <<DQ, DQ>>
     ELSE IF ~needsQuotes THEN trimmed
     ELSE <<DQ>> \o EscapeDoubleQuotes(trimmed) \o <<DQ>>

\* a rendering that joins the arguments as they are
formatExecCommandPlain(args) == JoinSpace(args)

formatExecCommand(args) == JoinSpace([i \in 1..Len(args) |-> FormatArg(args[i])])

extractShellCommandFromArgv(args) ==
  LET wrapped == extractShellWrapperCommand(args, NoText)
  IN IF wrapped.hasCommand THEN SomeText(wrapped.command) ELSE NoText

\* typeof rawCommand === "string" && rawCommand.trim().length > 0
\*   ? rawCommand.trim() : null
TrimmedRaw(rawCommand) ==
  IF rawCommand.found /\ Trim(rawCommand.text) # <<>>
    THEN SomeText(Trim(rawCommand.text)) ELSE NoText

\* SystemRunCommandValidation; the fields of the branch not taken are empty
ValidationOk(shellCommand, cmdText) ==
  [ok |-> TRUE, shellCommand |-> shellCommand, cmdText |-> cmdText,
   code |-> "", rawCommand |-> <<>>, inferred |-> <<>>]
ValidationMismatch(raw, inferred) ==
  [ok |-> FALSE, shellCommand |-> NoText, cmdText |-> <<>>,
   code |-> "RAW_COMMAND_MISMATCH", rawCommand |-> raw, inferred |-> inferred]

\* the comparison of raw with inferred, and the two results
ValidateInferred(raw, shellCommand, inferred) ==
  IF raw.found /\ raw.text # inferred THEN ValidationMismatch(raw.text, inferred)
  ELSE ValidationOk(
         IF shellCommand.found THEN (IF raw.found THEN raw ELSE shellCommand)
         ELSE NoText,
         IF raw.found THEN raw.text
         ELSE IF shellCommand.found THEN shellCommand.text
         ELSE inferred)

\* inferred: the shell command, trimmed, or else the formatted argv
ValidateShellCommand(args, raw, shellCommand) ==
  ValidateInferred(raw, shellCommand,
                   IF shellCommand.found THEN Trim(shellCommand.text)
                   ELSE formatExecCommand(args))

validateSystemRunCommandConsistency(args, rawCommand) ==
  ValidateShellCommand(args, TrimmedRaw(rawCommand), extractShellCommandFromArgv(args))

(***************************************************************************)
(* The safe command builders: buildSafeShellCommand and                    *)
(* buildSafeBinsShellCommand.                                              *)
(***************************************************************************)
\* value.replace(/'/g, singleQuoteEscape)
RECURSIVE EscapeSingleQuotes(_)
EscapeSingleQuotes(value) ==
  IF value = <<>> THEN <<>>
  ELSE (IF Head(value) = SQ THEN <<SQ, DQ, SQ, DQ, SQ>> ELSE <<Head(value)>>)
         \o EscapeSingleQuotes(Tail(value))

\* an escape that wraps the value without touching its quotes
shellEscapeSingleArgBare(value) == <<SQ>> \o value \o <<SQ>>

shellEscapeSingleArg(value) == <<SQ>> \o EscapeSingleQuotes(value) \o <<SQ>>

\* an argv shown as its words with spaces between, unquoted
renderPlainArgv(args) == JoinSpace(args)

renderQuotedArgv(args) ==
  JoinSpace([i \in 1..Len(args) |-> shellEscapeSingleArg(args[i])])

\* items.join(" | ")
RECURSIVE JoinPipe(_)
JoinPipe(items) ==
  IF items = <<>> THEN <<>>
  ELSE IF Len(items) = 1 THEN Head(items)
  ELSE Head(items) \o <<" ", "|", " ">> \o JoinPipe(Tail(items))

\* the characters of a chain operator, as the template string writes it
OperatorText(opToNext) ==
  CASE opToNext = "&&" -> <<" ", "&", "&", " ">>
    [] opToNext = "||" -> <<" ", "|", "|", " ">>
    [] opToNext = ";" -> <<" ", ";", " ">>
    [] OTHER -> <<>>

\* { ok, command?, reason? }
BuildFail(reason) == [ok |-> FALSE, hasCommand |-> FALSE, command |-> <<>>, reason |-> reason]
BuildOk(cmd) == [ok |-> TRUE, hasCommand |-> TRUE, command |-> cmd, reason |-> <<>>]

\* chain ?? [{ part: source, opToNext: null }]
ChainPartsOrWhole(source) ==
  LET chain == splitCommandChainWithOperators(source)
  IN IF chain.found THEN chain.parts ELSE <<[part |-> source, opToNext |-> None]>>

\* the inner for loop of buildSafeShellCommand: the rendered segments so
\* far, or the early return
RECURSIVE RenderSegments(_, _)
RenderSegments(segments, rendered) ==
  IF segments = <<>> THEN [ok |-> TRUE, rendered |-> rendered]
  ELSE LET parsed == splitShellArgs(Head(segments))
       IN IF ~parsed.ok \/ parsed.tokens = <<>> THEN [ok |-> FALSE, rendered |-> <<>>]
          ELSE RenderSegments(Tail(segments), Append(rendered, renderQuotedArgv(parsed.tokens)))

\* the outer for loop of buildSafeShellCommand
RECURSIVE BuildSafeParts(_, _)
BuildSafeParts(chainParts, out) ==
  IF chainParts = <<>> THEN BuildOk(out)
  ELSE LET part == Head(chainParts)
           pipelineSplit == splitShellPipeline(part.part)
           renderedSegments == RenderSegments(pipelineSplit.segments, <<>>)
       IN IF ~pipelineSplit.ok THEN BuildFail(pipelineSplit.reason)
          ELSE IF ~renderedSegments.ok
            THEN BuildFail(Reason("unable to parse shell segment"))
          ELSE BuildSafeParts(Tail(chainParts),
                              out \o JoinPipe(renderedSegments.rendered)
                                  \o OperatorText(part.opToNext))

buildSafeShellCommand(cmd, p) ==
  LET source == Trim(cmd)
  IN IF isWindowsPlatform(p) THEN BuildFail(Reason("unsupported platform"))
     ELSE IF source = <<>> THEN BuildFail(Reason("empty command"))
     ELSE BuildSafeParts(ChainPartsOrWhole(source), <<>>)

\* the inner for loop of buildSafeBinsShellCommand, from segIndex (1-based)
RECURSIVE RenderMapped(_, _, _, _, _)
RenderMapped(raws, segments, segmentSatisfiedBy, segIndex, rendered) ==
  IF raws = <<>> THEN [ok |-> TRUE, rendered |-> rendered, segIndex |-> segIndex]
  ELSE IF segIndex > Len(segments) \/ segIndex > Len(segmentSatisfiedBy)
    THEN [ok |-> FALSE, rendered |-> <<>>, segIndex |-> segIndex]
  ELSE LET needsLiteral == segmentSatisfiedBy[segIndex] = "safeBins"
       IN RenderMapped(Tail(raws), segments, segmentSatisfiedBy, segIndex + 1,
                       Append(rendered,
                              IF needsLiteral THEN renderQuotedArgv(segments[segIndex].argv)
                              ELSE Trim(Head(raws))))

\* the outer for loop of buildSafeBinsShellCommand and the check after it
RECURSIVE BuildSafeBinsParts(_, _, _, _, _)
BuildSafeBinsParts(chainParts, segments, segmentSatisfiedBy, segIndex, out) ==
  IF chainParts = <<>> THEN
    IF segIndex - 1 # Len(segments) THEN BuildFail(Reason("segment count mismatch"))
    ELSE BuildOk(out)
  ELSE LET part == Head(chainParts)
           pipelineSplit == splitShellPipeline(part.part)
           mapped == RenderMapped(pipelineSplit.segments, segments, segmentSatisfiedBy,
                                  segIndex, <<>>)
       IN IF ~pipelineSplit.ok THEN BuildFail(pipelineSplit.reason)
          ELSE IF ~mapped.ok THEN BuildFail(Reason("segment mapping failed"))
          ELSE BuildSafeBinsParts(Tail(chainParts), segments, segmentSatisfiedBy,
                                  mapped.segIndex,
                                  out \o JoinPipe(mapped.rendered)
                                      \o OperatorText(part.opToNext))

\* a length check that takes any two lists
LengthsDifferNever(segments, segmentSatisfiedBy) == FALSE

\* params.segments.length !== params.segmentSatisfiedBy.length
LengthsDiffer(segments, segmentSatisfiedBy) == Len(segments) # Len(segmentSatisfiedBy)

buildSafeBinsShellCommand(cmd, segments, segmentSatisfiedBy, p) ==
  IF isWindowsPlatform(p) THEN BuildFail(Reason("unsupported platform"))
  ELSE IF LengthsDiffer(segments, segmentSatisfiedBy)
    THEN BuildFail(Reason("segment metadata mismatch"))
  ELSE BuildSafeBinsParts(ChainPartsOrWhole(Trim(cmd)), segments, segmentSatisfiedBy, 1, <<>>)

(***************************************************************************)
(* The allowlist evaluator (exec-approvals-allowlist): every segment of an *)
(* analysis is satisfied by an allowlist match, by safe-bin usage or by    *)
(* skill auto-allow, or the command is not satisfied.  Only                *)
(* resolveAllowlistCandidatePath is in the sources at hand; the evaluator  *)
(* around it follows its description.  The calls carry no flags, so the    *)
(* denied flags of a safe-bin profile do not come into play.               *)
(***************************************************************************)
resolveAllowlistCandidatePath(resolution, cwd) ==
  LET raw == Trim(resolution.rawExecutable)
      expanded == IF At(raw, 1) = "~" THEN expandHomePrefix(raw) ELSE raw
      base == IF cwd.found /\ Trim(cwd.text) # <<>> THEN Trim(cwd.text) ELSE ProcessCwd
  IN IF resolution.isNull THEN NoText
     ELSE IF resolution.resolvedPath # <<>> THEN SomeText(resolution.resolvedPath)
     ELSE IF raw = <<>> THEN NoText
     ELSE IF ~Includes(expanded, "/") /\ ~Includes(expanded, BS) THEN NoText
     ELSE IF isAbsolute(expanded) THEN SomeText(expanded)
     ELSE SomeText(PathResolve(base, expanded))

\* path.dirname of an absolute path
PathDirname(p) ==
  LET name == AfterLast(p, {"/"})
      dir == DropTrailing(SubSeq(p, 1, Len(p) - Len(name)), {"/"})
  IN IF dir = <<>> THEN <<"/">> ELSE dir

\* safe-bin usage: off on Windows; the resolved executable lies in a trusted
\* directory and bears a safe-bin name, and no positional argument names an
\* existing path
isSafeBinUsage(args, resolution, p) ==
  /\ ~isWindowsPlatform(p.platform)
  /\ ~resolution.isNull
  /\ resolution.resolvedPath # <<>>
  /\ toLowerCase(resolution.executableName) \in p.safeBins
  /\ PathDirname(resolution.resolvedPath) \in p.trustedSafeBinDirs
  /\ \A i \in 2..Len(args) :
       FileKind(p.world.fs, PathResolve(IF p.cwd.found THEN p.cwd.text ELSE ProcessCwd,
                                        args[i])) = "none"

\* the resolution with the candidate path as its resolved path
CandidateResolution(resolution, candidatePath) ==
  IF candidatePath.found /\ ~resolution.isNull
    THEN [resolution EXCEPT !.resolvedPath = candidatePath.text]
    ELSE resolution

skillAllow(resolution, p) ==
  /\ p.autoAllowSkills
  /\ ~resolution.isNull
  /\ resolution.executableName \in p.skillBins

\* match ? "allowlist" : safe ? "safeBins" : skillAllow ? "skills" : null
SatisfactionOf(match, safe, skill) ==
  IF match.found THEN "allowlist"
  ELSE IF safe THEN "safeBins"
  ELSE IF skill THEN "skills"
  ELSE None

\* what satisfies a segment with this resolution, or None
SatisfiedWith(segment, resolution, p) ==
  SatisfactionOf(
    matchAllowlist(p.allowlist,
                   CandidateResolution(resolution,
                                       resolveAllowlistCandidatePath(resolution, p.cwd))),
    isSafeBinUsage(segment.argv, resolution, p),
    skillAllow(resolution, p))

\* what satisfies one segment, or None
SatisfiedBy(segment, p) ==
  SatisfiedWith(segment,
                resolveCommandResolutionFromArgv(segment.argv, p.cwd, p.env, p.world), p)

\* evaluateSegments: segments.every(...), which stops at the first segment
\* that nothing satisfies
RECURSIVE evaluateSegments(_, _, _)
EvaluateRest(segments, p, by, one) ==
  IF one = None THEN [satisfied |-> FALSE, segmentSatisfiedBy |-> Append(by, one)]
  ELSE evaluateSegments(Tail(segments), p, Append(by, one))

evaluateSegments(segments, p, by) ==
  IF segments = <<>> THEN [satisfied |-> TRUE, segmentSatisfiedBy |-> by]
  ELSE EvaluateRest(segments, p, by, SatisfiedBy(Head(segments), p))

Evaluation(analysisOk, allowlistSatisfied, by) ==
  [analysisOk |-> analysisOk, allowlistSatisfied |-> allowlistSatisfied,
   segmentSatisfiedBy |-> by]

\* the loop over analysis.chains, which gives up at the first chain part
\* that is not satisfied
RECURSIVE EvaluateChains(_, _, _)
EvaluateChains(chains, p, by) ==
  IF chains = <<>> THEN Evaluation(TRUE, TRUE, by)
  ELSE LET one == evaluateSegments(Head(chains), p, <<>>)
       IN IF ~one.satisfied THEN Evaluation(TRUE, FALSE, <<>>)
          ELSE EvaluateChains(Tail(chains), p, by \o one.segmentSatisfiedBy)

evaluateExecAllowlist(analysis, p) ==
  IF ~analysis.ok \/ analysis.segments = <<>> THEN Evaluation(analysis.ok, FALSE, <<>>)
  ELSE IF analysis.hasChains THEN EvaluateChains(analysis.chains, p, <<>>)
  ELSE LET one == evaluateSegments(analysis.segments, p, <<>>)
       IN Evaluation(TRUE, one.satisfied, one.segmentSatisfiedBy)

evaluateShellAllowlist(p) ==
  evaluateExecAllowlist(analyzeShellCommand(p.command, p.platform), p)

(***************************************************************************)
(* The TUI event handlers (tui-event-handlers, createEventHandlers).  The  *)
(* state is the TuiStateAccess fields the handlers read and write, the     *)
(* closure's own maps, and the calls the last handler made on the chat     *)
(* log, the status line, the renderer and the history loader.  The run     *)
(* maps stay far below the 200 entries at which pruneRunMap starts to      *)
(* delete, so pruning never happens here.                                  *)
(***************************************************************************)
TuiRuns == {"A", "B"}
NoStreams == [r \in TuiRuns |-> ""]

Call(name, args) == [name |-> name, args |-> args]
Called(t, name, args) == [t EXCEPT !.calls = Append(@, Call(name, args))]

setActivityStatus(t, text) ==
  [Called(t, "setActivityStatus", <<text>>) EXCEPT !.activityStatus = text]

\* a syncSessionKey that keeps the runs of the session it leaves
syncSessionKeyKeeping(t) == [t EXCEPT !.lastSessionKey = t.currentSessionKey]

syncSessionKey(t) ==
  IF t.currentSessionKey = t.lastSessionKey THEN t
  ELSE [t EXCEPT !.lastSessionKey = t.currentSessionKey,
                 !.finalizedRuns = {},
                 !.sessionRuns = {},
                 !.streams = NoStreams,
                 !.localRunIds = {}]

noteSessionRun(t, runId) == [t EXCEPT !.sessionRuns = @ \cup {runId}]

\* streamAssembler.drop(runId)
DropStream(t, runId) == [t EXCEPT !.streams[runId] = ""]

\* a noteFinalizedRun that forgets the run instead of keeping it
noteFinalizedRunForgetting(t, runId) ==
  DropStream([t EXCEPT !.sessionRuns = @ \ {runId}], runId)

noteFinalizedRun(t, runId) ==
  DropStream([t EXCEPT !.finalizedRuns = @ \cup {runId}, !.sessionRuns = @ \ {runId}], runId)

clearActiveRunIfMatch(t, runId) ==
  IF t.activeChatRunId = runId THEN [t EXCEPT !.activeChatRunId = None] ELSE t

\* a check that never sees another run
hasConcurrentActiveRunNever(t, runId) == FALSE

hasConcurrentActiveRun(t, runId) ==
  LET activeRunId == t.activeChatRunId
  IN IF activeRunId = None \/ activeRunId = runId THEN FALSE
     ELSE activeRunId \in t.sessionRuns

maybeRefreshHistoryForRun(t, runId) ==
  IF runId \in t.localRunIds THEN [t EXCEPT !.localRunIds = @ \ {runId}]
  ELSE IF hasConcurrentActiveRun(t, runId) THEN t
  ELSE Called(t, "loadHistory", <<>>)

\* streamAssembler.ingestDelta: the text to display, or None when the
\* message has no text or the display would not change
ingestDelta(t, runId, message) ==
  IF message.text = "" \/ message.text = t.streams[runId]
    THEN [text |-> None, state |-> t]
    ELSE [text |-> message.text, state |-> [t EXCEPT !.streams[runId] = message.text]]

\* streamAssembler.finalize: the final text, and the run's stream dropped
finalize(t, runId, message) ==
  [text |-> IF message.text # "" THEN message.text
            ELSE IF t.streams[runId] # "" THEN t.streams[runId]
            ELSE "(no output)",
   state |-> DropStream(t, runId)]

\* the end of the three branches of a final event: the run is finalized, the
\* active run cleared if it is this one, the status set if it was
FinishRun(t, runId, wasActiveRun, status) ==
  LET finalized == clearActiveRunIfMatch(noteFinalizedRun(t, runId), runId)
      shown == IF wasActiveRun THEN setActivityStatus(finalized, status) ELSE finalized
  IN Called(shown, "refreshSessionInfo", <<>>)

\* evt.state === "final"
ChatFinal(t, evt) ==
  LET wasActiveRun == t.activeChatRunId = evt.runId
      refreshed == maybeRefreshHistoryForRun(t, evt.runId)
      final == finalize(refreshed, evt.runId, evt.message)
  IN IF evt.message.kind = "none" THEN
       FinishRun(Called(refreshed, "dropAssistant", <<evt.runId>>),
                 evt.runId, wasActiveRun, "idle")
     ELSE IF evt.message.kind = "command" THEN
       FinishRun(DropStream(IF evt.message.text # ""
                              THEN Called(refreshed, "addSystem", <<evt.message.text>>)
                              ELSE refreshed,
                            evt.runId),
                 evt.runId, wasActiveRun, "idle")
     ELSE
       FinishRun(Called(final.state, "finalizeAssistant", <<final.text, evt.runId>>),
                 evt.runId, wasActiveRun,
                 IF evt.message.stopReason = "error" THEN "error" ELSE "idle")

\* evt.state === "aborted" and evt.state === "error"
ChatStopped(t, evt, said, status) ==
  LET wasActiveRun == t.activeChatRunId = evt.runId
      dropped == DropStream(Called(t, "addSystem", <<said>>), evt.runId)
      cleared == clearActiveRunIfMatch([dropped EXCEPT !.sessionRuns = @ \ {evt.runId}],
                                       evt.runId)
      shown == IF wasActiveRun THEN setActivityStatus(cleared, status) ELSE cleared
  IN maybeRefreshHistoryForRun(Called(shown, "refreshSessionInfo", <<>>), evt.runId)

handleChatEvent(t, evt) ==
  LET synced == syncSessionKey(t)
      noted == noteSessionRun(synced, evt.runId)
      active == IF noted.activeChatRunId = None
                  THEN [noted EXCEPT !.activeChatRunId = evt.runId] ELSE noted
      delta == ingestDelta(active, evt.runId, evt.message)
  IN IF evt.sessionKey # synced.currentSessionKey THEN synced
     ELSE IF evt.runId \in synced.finalizedRuns /\ evt.state \in {"delta", "final"} THEN synced
     ELSE IF evt.state = "delta" THEN
       IF delta.text = None THEN delta.state
       ELSE Called(setActivityStatus(
                     Called(delta.state, "updateAssistant", <<delta.text, evt.runId>>),
                     "streaming"),
                   "requestRender", <<>>)
     ELSE IF evt.state = "final" THEN Called(ChatFinal(active, evt), "requestRender", <<>>)
     ELSE IF evt.state = "aborted" THEN
       Called(ChatStopped(active, evt, "run aborted", "aborted"), "requestRender", <<>>)
     ELSE IF evt.state = "error" THEN
       Called(ChatStopped(active, evt, "run error", "error"), "requestRender", <<>>)
     ELSE Called(active, "requestRender", <<>>)

\* evt.stream === "tool"
AgentTool(t, evt) ==
  LET verbose == t.verboseLevel
      allowToolEvents == verbose # "off"
      allowToolOutput == verbose = "full"
  IN IF ~allowToolEvents THEN t
     ELSE IF evt.toolCallId = "" THEN t
     ELSE IF evt.phase = "start" THEN
       Called(Called(t, "startTool", <<evt.toolCallId>>), "requestRender", <<>>)
     ELSE IF evt.phase = "update" THEN
       IF ~allowToolOutput THEN t
       ELSE Called(Called(t, "updateToolResult", <<evt.toolCallId, "partial">>),
                   "requestRender", <<>>)
     ELSE IF evt.phase = "result" THEN
       Called(Called(t, "updateToolResult",
                     <<evt.toolCallId, IF allowToolOutput THEN "result" ELSE "empty">>),
              "requestRender", <<>>)
     ELSE Called(t, "requestRender", <<>>)

\* evt.stream === "lifecycle"
AgentLifecycle(t, evt, isActiveRun) ==
  IF ~isActiveRun THEN t
  ELSE Called(IF evt.phase = "start" THEN setActivityStatus(t, "running")
              ELSE IF evt.phase = "end" THEN setActivityStatus(t, "idle")
              ELSE IF evt.phase = "error" THEN setActivityStatus(t, "error")
              ELSE t,
              "requestRender", <<>>)

handleAgentEvent(t, evt) ==
  LET synced == syncSessionKey(t)
      isActiveRun == evt.runId = synced.activeChatRunId
      isKnownRun == \/ isActiveRun
                    \/ evt.runId \in synced.sessionRuns
                    \/ evt.runId \in synced.finalizedRuns
  IN IF ~isKnownRun THEN synced
     ELSE IF evt.stream = "tool" THEN AgentTool(synced, evt)
     ELSE IF evt.stream = "lifecycle" THEN AgentLifecycle(synced, evt, isActiveRun)
     ELSE synced

\* the event handlers right after createEventHandlers, on a state with the
\* given verbose level, active run and local runs.  The last four fields
\* are what an observer of the handled events knows: the session key at
\* the last handled event, the runs that had a chat event, and those that
\* had a final chat event, of that session since the handlers last saw
\* another key, and the runs that had a chat event of any session.
TuiStart(verbose, active, localRuns, budget) ==
  [currentSessionKey |-> "s", lastSessionKey |-> "s", activeChatRunId |-> active,
   verboseLevel |-> verbose, activityStatus |-> "idle",
   sessionRuns |-> {}, finalizedRuns |-> {}, streams |-> NoStreams,
   localRunIds |-> localRuns, calls |-> <<>>, last |-> [kind |-> "none"],
   budget |-> budget,
   seenKey |-> "s", chatted |-> {}, finaled |-> {}, everChatted |-> {}]

QuietTui == TuiStart("on", None, {}, 1)

(***************************************************************************)
(* The retry loop of runEmbeddedPiAgent (pi-embedded-runner/run.ts), at    *)
(* its three awaits: the prompt attempt, the auto-compaction and the       *)
(* truncation of oversized tool results.  What an attempt, a compaction or *)
(* a truncation comes back with is the environment's choice.  An attempt   *)
(* ends in success, in a context overflow, in a context overflow that is a *)
(* compaction failure, in an error the loop retries without compacting     *)
(* (another auth profile, another thinking level), or in an error it       *)
(* returns or throws.                                                      *)
(***************************************************************************)
MAX_OVERFLOW_COMPACTION_ATTEMPTS == 3

AttemptOutcomes == {"ok", "overflow", "compaction_failure", "retry", "error"}

\* what isContextOverflowError and isCompactionFailureError make of an
\* error text: no error, a context overflow, a context overflow that is a
\* compaction failure, or another error
ErrorKinds == {None, "overflow", "compaction_failure", "other"}
OverflowKinds == {"overflow", "compaction_failure"}

\* the result of runEmbeddedAttempt as the loop reads it: aborted, the
\* prompt error, the error text of the last assistant message, whether the
\* messages hold oversized tool results, and what the handling after the
\* overflow branch makes of an attempt that gets there
Attempt(aborted, promptError, assistantError, hasOversized, rest) ==
  [aborted |-> aborted, promptError |-> promptError, assistantError |-> assistantError,
   hasOversized |-> hasOversized, rest |-> rest]
NoAttempt == Attempt(FALSE, None, None, FALSE, "ok")

\* an overflow test that reads the last assistant message whatever the
\* prompt error is
contextOverflowErrorStale(attempt) ==
  IF attempt.aborted THEN None
  ELSE IF attempt.promptError \in OverflowKinds THEN attempt.promptError
  ELSE IF attempt.assistantError \in OverflowKinds THEN attempt.assistantError
  ELSE None

\* const contextOverflowError = !aborted ? ... : null, as the kind of its
\* text (None for null)
contextOverflowError(attempt) ==
  IF attempt.aborted THEN None
  ELSE IF attempt.promptError # None THEN
    IF attempt.promptError \in OverflowKinds THEN attempt.promptError ELSE None
  ELSE IF attempt.assistantError \in OverflowKinds THEN attempt.assistantError
  ELSE None

\* the branch the loop takes with an attempt
OutcomeOf(attempt, overflow) == IF overflow # None THEN overflow ELSE attempt.rest

\* the loop's variables on entry, with counts of what it has called so far
NewRun ==
  [pc |-> "attempt", overflowCompactionAttempts |-> 0,
   toolResultTruncationAttempted |-> FALSE, hasOversized |-> FALSE,
   isCompactionFailure |-> FALSE,
   prompts |-> 0, compactions |-> 0, truncations |-> 0, retries |-> 0,
   onlyOverflows |-> TRUE, allCompacted |-> TRUE, oversizedDetected |-> FALSE,
   lastOutcome |-> None, errorKind |-> None, attempt |-> NoAttempt]

\* the return at the end of the overflow branch
ReturnOverflow(r) ==
  [r EXCEPT !.pc = "done",
            !.errorKind = IF r.isCompactionFailure THEN "compaction_failure"
                          ELSE "context_overflow"]

\* the fallback after the compaction branch: truncate once if the session
\* has oversized tool results, else return the overflow error
TruncateOrReturn(r) ==
  IF ~r.toolResultTruncationAttempted /\ r.hasOversized
    THEN [r EXCEPT !.toolResultTruncationAttempted = TRUE, !.oversizedDetected = TRUE,
                   !.pc = "truncate"]
    ELSE ReturnOverflow(r)

\* a limit test that lets one more compaction through
CompactionAllowedOnceMore(r) ==
  ~r.isCompactionFailure /\ r.overflowCompactionAttempts <= MAX_OVERFLOW_COMPACTION_ATTEMPTS

CompactionAllowed(r) ==
  ~r.isCompactionFailure /\ r.overflowCompactionAttempts < MAX_OVERFLOW_COMPACTION_ATTEMPTS

\* what the loop does with the attempt that has just come back
AfterAttempt(r, outcome, hasOversized) ==
  LET seen == [r EXCEPT !.prompts = @ + 1, !.lastOutcome = outcome,
                        !.hasOversized = hasOversized,
                        !.isCompactionFailure = outcome = "compaction_failure",
                        !.onlyOverflows = @ /\ outcome = "overflow"]
  IN IF outcome \in {"overflow", "compaction_failure"} THEN
       IF CompactionAllowed(seen)
         THEN [seen EXCEPT !.overflowCompactionAttempts = @ + 1, !.pc = "compact"]
         ELSE TruncateOrReturn(seen)
     ELSE IF outcome = "retry" THEN [seen EXCEPT !.retries = @ + 1]
     ELSE IF outcome = "error" THEN [seen EXCEPT !.pc = "done", !.errorKind = "other"]
     ELSE [seen EXCEPT !.pc = "done"]

\* one turn of the loop up to its next await or its return
AfterAttemptOf(r, attempt) ==
  [AfterAttempt(r, OutcomeOf(attempt, contextOverflowError(attempt)), attempt.hasOversized)
     EXCEPT !.attempt = attempt]

\* what the loop does with the compaction that has just come back
AfterCompaction(r, compacted) ==
  LET seen == [r EXCEPT !.compactions = @ + 1, !.allCompacted = @ /\ compacted]
  IN IF compacted THEN [seen EXCEPT !.pc = "attempt"] ELSE TruncateOrReturn(seen)

\* what the loop does with the truncation that has just come back
AfterTruncation(r, truncated) ==
  LET seen == [r EXCEPT !.truncations = @ + 1]
  IN IF truncated THEN [seen EXCEPT !.overflowCompactionAttempts = 0, !.pc = "attempt"]
     ELSE ReturnOverflow(seen)

(***************************************************************************)
(* The calls: one pending call of an exported function, then its result.  *)
(* command, platform and argv are the parameters of analyzeShellCommand    *)
(* and analyzeArgvCommand; input holds the parameters of the others.       *)
(***************************************************************************)
\* length bounds of the enumerated inputs
MaxLen == 3
MaxChainLen == 5
MaxSubstLen == 5
MaxTail == 4
MaxArgs == 2
MaxWinLen == 6
MaxAllowLen == 4
MaxPatternLen == 4
MaxTargetLen == 4
MaxTokenLen == 5

\* all strings over alphabet of length at most n
Strings(alphabet, n) == UNION {[1..k -> alphabet] : k \in 0..n}

Alphabet == {"a", " ", "|", "&", ";", SQ, DQ, BS, "$", "(", "<", ">", NL, "%"}
ChainAlphabet == {"a", " ", "|", "&", ";", SQ, DQ, BS}
SubstAlphabet == {"a", " ", "|", "$", "(", BT, SQ, DQ, BS}
TailAlphabet == {"E", "b", NL, BT, ";"}
WinAlphabet == {"a", "b", " ", DQ, "%"}

\* the line that opens a heredoc (or fails to), before the enumerated tail
Delim == <<"E">>
UnquotedHeads == {<<"a", "<", "<", "E", NL>>, <<"a", "<", "<", "-", "E", NL>>}
QuotedHeads == {<<"a", "<", "<", SQ, "E", SQ, NL>>, <<"a", "<", "<", DQ, "E", DQ, NL>>}
HeredocHeads == {<<"a", "<", "<">>} \cup UnquotedHeads \cup QuotedHeads

Linux == <<"l", "i", "n", "u", "x">>
Win32 == <<"w", "i", "n", "3", "2">>
Platforms == {<<>>, Linux, Win32, <<" ", "W", "i", "n">>}
WinPlatforms == {Win32, <<" ", "W", "i", "n">>}

ArgvWords == {<<>>, <<" ">>, <<"a">>, <<"a", " ", "b">>}
ArgvInputs == UNION {[1..k -> ArgvWords] : k \in 0..MaxArgs}

NoResult == [ok |-> FALSE, reason |-> <<>>, segments |-> <<>>,
             hasChains |-> FALSE, chains |-> <<>>]

NoInput == <<>>

ShellCall(commands, platforms) ==
  /\ op = "analyzeShellCommand"
  /\ command \in commands
  /\ platform \in platforms
  /\ argv = <<>>
  /\ input = NoInput

ArgvCall ==
  /\ op = "analyzeArgvCommand"
  /\ argv \in ArgvInputs
  /\ command = <<>>
  /\ platform = <<>>
  /\ input = NoInput

\* a call of one of the functions whose parameters are in input
InputCall(name, inputs) ==
  /\ op = name
  /\ input \in inputs
  /\ command = <<>>
  /\ platform = <<>>
  /\ argv = <<>>

\* allowlists and resolutions
AllowAlphabet == {"r", "R", "/", "~", " ", "*"}
GlobAlphabet == {"/", "a", "A", "*", "?", ".", "|"}
TargetAlphabet == {"/", "a", "b"}

\* the entries listed before the enumerated one
EntryPrefixes ==
  {<<>>, <<Entry(<<"*", "*">>)>>, <<Entry(<<" ">>)>>, <<Entry(<<"/", "x">>)>>}

EntryLists(patterns) ==
  {<<>>} \cup {pre \o <<Entry(pt)>> : pre \in EntryPrefixes, pt \in patterns}

AllowResolutions ==
  {NullResolution, Resolution(<<"r">>, <<>>, <<"r">>)}
    \cup {Resolution(<<"r">>, path, <<"r">>) :
            path \in {<<"/", "r">>, <<"/", "h", "/", "r">>, <<"/", "r", "/", "r">>}}

AllowInputs ==
  [entries : EntryLists(Strings(AllowAlphabet, MaxAllowLen)),
   resolution : AllowResolutions]

GlobInputs ==
  [entries : {<<Entry(pt)>> : pt \in Strings(GlobAlphabet, MaxPatternLen)},
   resolution : {Resolution(<<"a">>, path, <<"a">>) :
                   path \in Strings(TargetAlphabet, MaxTargetLen)}]

SmallAllowInputs ==
  [entries : {<<Entry(<<"/", "*">>)>>},
   resolution : {NullResolution, Resolution(<<"r">>, <<"/", "r">>, <<"r">>)}]

TokenAlphabet == {"-", "=", "a", "b"}
TokenInputs == [raw : Strings(TokenAlphabet, MaxTokenLen)]
SmallTokenInputs == [raw : {<<>>, <<"-", "a">>}]

\* argv of env invocations: an env name, then words of every kind the
\* unwrapper tells apart (assignment, flag, option with a separate, attached
\* or "=" value, terminators, unknown option, blank, command)
EnvWords ==
  { <<"A", "=", "b">>, <<"-", "i">>,
    <<"-", "-", "n", "u", "l", "l">>, <<"-", "u">>,
    <<"-", "U">>, <<"-", "u", "A">>,
    <<"-", "-", "u", "n", "s", "e", "t", "=", "A">>, <<"-", "-", "u", "n", "s", "e", "t">>,
    <<"-", "-">>, <<"-">>,
    <<"-", "x">>, <<" ">>,
    <<"r", "g">> }
MaxEnvArgs == 3
EnvHeads == { <<"e", "n", "v">> }
ArgvOver(heads, words, n) ==
  UNION { { <<h>> \o t : t \in [1..k -> words] } : h \in heads, k \in 0..n }
EnvInputs(n) == [argv : ArgvOver(EnvHeads, EnvWords, n)]
SmallEnvInputs == [argv : { <<<<"e", "n", "v">>, <<"r", "g">>>> }]

\* layers of env in front of a command: up to MaxLayers words of an env
\* layer, then a command that is or is not a shell wrapper
LayerWords == { <<"e", "n", "v">>, <<"/", "E", "N", "V">>, <<"A", "=", "b">> }
MaxLayers == 5
LayerTails ==
  { <<>>, << <<"r", "g">> >>,
    << <<"s", "h">>, <<"-", "c">>, <<"x">> >> }
LayeredArgv ==
  UNION { { pre \o tail : pre \in [1..k -> LayerWords], tail \in LayerTails }
          : k \in 0..MaxLayers }
DepthInputs == [argv : LayeredArgv]
DepthWrapperInputs == [argv : LayeredArgv, rawCommand : {NoText}]
SmallDepthInputs == [argv : { << <<"e", "n", "v">>, <<"r", "g">> >> }]
SmallWrapperInputs == [argv : { << <<"s", "h">>, <<"-", "c">>, <<"x">> >> }, rawCommand : {NoText}]

\* wrapper invocations: an executable, then up to MaxShellArgs arguments,
\* with the caller's raw command absent, blank or given
WrapperHeads ==
  { <<"s", "h">>, <<"/", "b", "i", "n", "/", "Z", "s", "h">>, <<"c", "m", "d">>,
    <<"p", "w", "s", "h">>, <<"r", "g">>, <<"e", "n", "v">>,
    <<" ">> }
WrapperWords ==
  { <<"-", "c">>, <<"-", "L", "C">>, <<"-", "x">>, <<"-", "-">>,
    <<"/", "C">>, <<"x">>, <<" ">>, <<"A", "=", "b">> }
MaxShellArgs == 3
RawCommands == { NoText, SomeText(<<" ">>), SomeText(<<"y">>) }
WrapperInputs(n) ==
  [argv : ArgvOver(WrapperHeads, WrapperWords, n), rawCommand : RawCommands]

\* resolution: the executables at four places, a PATH of up to
\* MaxPathEntries directories, Path and the PATH of the process set or not,
\* and a working directory given, blank or absent
Kinds == {"none", "dir", "file", "exec"}
FsPaths == { <<"/", "a", "/", "x">>, <<"/", "b", "/", "x">>, <<"/", "w", "/", "x">>, <<"/", "h", "/", "x">> }
FsStates ==
  { fs \in [FsPaths -> Kinds] :
      \A p \in FsPaths \ { <<"/", "a", "/", "x">> } : fs[p] \in {"none", "exec"} }
MaxPathEntries == 2
PathDirs == { <<"/", "a">>, <<"/", "b">>, <<>> }
PathStrings ==
  { JoinWith(entries, PathDelimiter) :
      entries \in UNION { [1..k -> PathDirs] : k \in 0..MaxPathEntries } }
Envs ==
  [PATH : {NoText} \cup { SomeText(p) : p \in PathStrings },
   Path : {NoText, SomeText(<<"/", "b">>)}]
NoEnv == [PATH |-> NoText, Path |-> NoText]
ProcessEnvs == { NoEnv, [PATH |-> SomeText(<<"/", "b">>), Path |-> NoText] }
Worlds == [fs : FsStates, processEnv : ProcessEnvs]
Cwds == { NoText, SomeText(<<" ">>), SomeText(<<"/", "a">>) }
ExecutableTokens ==
  { <<"x">>, <<"y">>, <<".", "/", "x">>,
    <<"/", "a", "/", "x">>, <<"~", "/", "x">> }
ResolveCommands ==
  { token \o <<" ", "n">> : token \in ExecutableTokens }
    \cup { <<DQ>> \o <<".", "/", "x">> \o <<DQ, " ", "n">>, <<SQ>> \o <<"x">>, <<" ">> }
ResolveArgvs ==
  { <<token, <<"n">>>> : token \in ExecutableTokens }
    \cup { << <<"e", "n", "v">>, <<"A", "=", "b">>, <<"x">> >>, << <<" ">> >> }
ResolveInputs == [command : ResolveCommands, cwd : Cwds, env : Envs, world : Worlds]
ResolveArgvInputs == [argv : ResolveArgvs, cwd : Cwds, env : Envs, world : Worlds]

\* resolution behind env layers: the commands of LayeredArgv, there or not
\* in the second directory of PATH
LayerFsPaths == { <<"/", "a", "/", "r", "g">>, <<"/", "a", "/", "s", "h">> }
LayerWorlds == [fs : [LayerFsPaths -> {"none", "exec"}], processEnv : {NoEnv}]
LayerEnvs ==
  [PATH : {NoText, SomeText(<<"/", "b", ":", "/", "a">>)}, Path : {NoText}]
LayeredInputs == [argv : LayeredArgv, cwd : {NoText}, env : LayerEnvs, world : LayerWorlds]

SmallWorlds ==
  [fs : { [p \in FsPaths |-> IF p = <<"/", "a", "/", "x">> THEN "exec" ELSE "none"] },
   processEnv : {NoEnv}]
SmallResolveInputs ==
  [command : { <<"/", "a", "/", "x">> }, cwd : {NoText}, env : {NoEnv}, world : SmallWorlds]
SmallResolveArgvInputs ==
  [argv : { << <<"/", "a", "/", "x">> >> }, cwd : {NoText}, env : {NoEnv}, world : SmallWorlds]

\* system.run requests: an executable with up to MaxRunArgs arguments, and
\* a raw command that is absent, blank, or one of the texts an argv may show
RunHeads == { <<"s", "h">>, <<"r", "g">>, <<"e", "n", "v">> }
RunWords ==
  { <<"-", "c">>, <<"x">>, <<" ", "x">>,
    <<"a", " ", "b">>, <<"a", DQ, "b">>, <<" ">> }
MaxRunArgs == 2
RunRawCommands ==
  { NoText, SomeText(<<" ">>), SomeText(<<"x">>), SomeText(<<" ", "x", " ">>),
    SomeText(<<"r", "g", " ", "x">>), SomeText(<<"s", "h", " ", "-", "c", " ", "x">>),
    SomeText(<<"r", "g", " ", DQ, "a", " ", "b", DQ>>),
    SomeText(<<"r", "g", " ", DQ, "a", BS, DQ, "b", DQ>>) }
RunInputs == [argv : ArgvOver(RunHeads, RunWords, MaxRunArgs), rawCommand : RunRawCommands]
SmallRunInputs == [argv : { << <<"r", "g">> >> }, rawCommand : {NoText}]

\* calls of the builders: a command, the segments and the satisfaction
\* flags its caller supplies, and the platform.  The caller supplies the
\* segments of its own analysis with every choice of flags, or segments with
\* another argv, or lists that are one entry short or long
BuildAlphabet == {"a", " ", "|", ";", "&", SQ, DQ, BS, "*"}
MaxBuildLen == 3
\* longer commands that mix pipelines and chains
LongBuildCommands ==
  { <<"a", "|", "*", ";", "a">>,
    <<BS, "|", ";", DQ, SQ, DQ>>,
    <<"a", " ", "&", "&", " ", "a", " ", "|", " ", "a">>,
    <<"a", " ", "a", "|", "|", SQ, "a", " ", SQ, "|", "*", " ">>,
    <<" ", "a", ";", "a", "|", DQ, SQ, DQ, ";", "a", " ", "*">> }
BuildCommands == Strings(BuildAlphabet, MaxBuildLen) \cup LongBuildCommands
SatisfiedByValues == {"allowlist", "safeBins", None}
OtherSegment == Segment(<<"z">>, << <<"z", SQ>> >>)
BinsCall(cmd, segments, segmentSatisfiedBy, p) ==
  [command |-> cmd, segments |-> segments, segmentSatisfiedBy |-> segmentSatisfiedBy,
   platform |-> p]
Repeat(value, n) == [i \in 1..n |-> value]
BinsCallsWith(cmd, segs, n, fewer) ==
  { BinsCall(cmd, segs, by, Linux) : by \in [1..n -> SatisfiedByValues] }
    \cup { BinsCall(cmd, Repeat(OtherSegment, n), Repeat("safeBins", n), Linux),
           BinsCall(cmd, SubSeq(segs, 1, fewer), Repeat("safeBins", fewer), Linux),
           BinsCall(cmd, Append(segs, OtherSegment), Repeat("safeBins", n + 1), Linux),
           BinsCall(cmd, segs, Repeat("safeBins", n + 1), Linux),
           BinsCall(cmd, Append(segs, OtherSegment), Repeat("safeBins", n), Linux) }
BinsCallsOf(cmd, segs) ==
  BinsCallsWith(cmd, segs, Len(segs), IF segs = <<>> THEN 0 ELSE Len(segs) - 1)
BinsCallsFor(cmd) == BinsCallsOf(cmd, analyzeShellCommand(cmd, Linux).segments)
WindowsBinsCalls ==
  { BinsCall(<<"a">>, <<Segment(<<"a">>, << <<"a">> >>)>>, <<"safeBins">>, p) :
      p \in WinPlatforms }
BuildBinsInputs(commands) ==
  UNION { BinsCallsFor(cmd) : cmd \in commands } \cup WindowsBinsCalls
SmallBuildBinsInputs ==
  { BinsCall(<<"a">>, <<Segment(<<"a">>, << <<"a">> >>)>>, <<"safeBins">>, Linux) }

\* calls of buildSafeShellCommand: a command and a platform
BuildCall(cmd, p) == [command |-> cmd, platform |-> p]
BuildInputs ==
  { BuildCall(cmd, Linux) : cmd \in BuildCommands }
    \cup { BuildCall(cmd, p) : cmd \in {<<"a">>, <<"a", "|", "a">>}, p \in WinPlatforms }
SmallBuildInputs == { BuildCall(<<"a">>, Linux) }

\* calls of the evaluator: commands of up to MaxEvalStages stages joined by
\* a pipe or a chain operator, over a file system where /b/a and /b/r may be
\* executables and PATH is /b
MaxEvalStages == 2
EvalStageTexts == { <<"/", "b", "/", "a">>, <<"r">>, <<"r", " ", "/", "b", "/", "a">> }
EvalJoints == { <<"|">>, <<"&", "&">>, <<";">> }
RECURSIVE EvalCommandsOf(_)
EvalCommandsOf(n) ==
  IF n = 1 THEN EvalStageTexts
  ELSE { cmd \o joint \o stage :
           cmd \in EvalCommandsOf(n - 1), joint \in EvalJoints, stage \in EvalStageTexts }
EvalCommands ==
  UNION { EvalCommandsOf(n) : n \in 1..MaxEvalStages }
    \cup { <<"r", " ", "&", "&">>, <<"r", "|", "|", "r", "|", "/", "b", "/", "a", ";", "r">> }
EvalFsPaths == { <<"/", "b", "/", "a">>, <<"/", "b", "/", "r">> }
EvalWorlds == [fs : [EvalFsPaths -> {"none", "exec"}], processEnv : {NoEnv}]
EvalAllowlists ==
  { <<>>, <<Entry(<<"/", "b", "/", "a">>)>>,
    <<Entry(<<"/", "b", "/", "a">>), Entry(<<"/", "b", "/", "r">>)>> }
EvalSafeBins ==
  { [safeBins |-> {}, trustedSafeBinDirs |-> {}],
    [safeBins |-> {<<"r">>}, trustedSafeBinDirs |-> {<<"/", "b">>}],
    [safeBins |-> {<<"r">>}, trustedSafeBinDirs |-> {<<"/", "c">>}] }
EvalCall(cmd, world, allowlist, safe, skillBins, p) ==
  [command |-> cmd, platform |-> p, allowlist |-> allowlist,
   safeBins |-> safe.safeBins, trustedSafeBinDirs |-> safe.trustedSafeBinDirs,
   skillBins |-> skillBins, autoAllowSkills |-> skillBins # {},
   cwd |-> NoText, env |-> [PATH |-> SomeText(<<"/", "b">>), Path |-> NoText],
   world |-> world]
EvalInputs ==
  { EvalCall(cmd, world, allowlist, safe, skillBins, Linux) :
      cmd \in EvalCommands, world \in EvalWorlds, allowlist \in EvalAllowlists,
      safe \in EvalSafeBins, skillBins \in { {}, {<<"a">>} } }
    \cup { EvalCall(<<"r", " ", "&", " ", "r">>, world, <<Entry(<<"/", "b", "/", "r">>)>>,
                    [safeBins |-> {}, trustedSafeBinDirs |-> {}], {}, Win32) :
             world \in EvalWorlds }
SmallEvalInputs ==
  { EvalCall(<<"r">>, world, <<>>, [safeBins |-> {}, trustedSafeBinDirs |-> {}], {}, Linux) :
      world \in { [fs |-> [path \in EvalFsPaths |-> "exec"], processEnv |-> NoEnv] } }

\* the event handlers: the runs and session keys the events speak of, and
\* the number of events and session switches of a scenario
MaxEvents == 3
Message(kind, text, stopReason) == [kind |-> kind, text |-> text, stopReason |-> stopReason]
DeltaMessages == { Message("text", "x", ""), Message("text", "y", ""), Message("text", "", "") }
FinalMessages ==
  { Message("none", "", ""), Message("command", "x", ""), Message("text", "x", ""),
    Message("text", "", "error") }
ChatEvents(runs, keys) ==
  { [kind |-> "chat", runId |-> r, sessionKey |-> k, state |-> "delta", message |-> m] :
      r \in runs, k \in keys, m \in DeltaMessages }
    \cup { [kind |-> "chat", runId |-> r, sessionKey |-> k, state |-> "final", message |-> m] :
             r \in runs, k \in keys, m \in FinalMessages }
    \cup { [kind |-> "chat", runId |-> r, sessionKey |-> k, state |-> st,
            message |-> Message("none", "", "")] :
             r \in runs, k \in keys, st \in {"aborted", "error"} }
AgentEvents(runs) ==
  { [kind |-> "agent", runId |-> r, stream |-> "tool", phase |-> ph, toolCallId |-> "t"] :
      r \in runs, ph \in {"start", "update", "result"} }
    \cup { [kind |-> "agent", runId |-> r, stream |-> "tool", phase |-> "start",
            toolCallId |-> ""] : r \in runs }
    \cup { [kind |-> "agent", runId |-> r, stream |-> "lifecycle", phase |-> ph,
            toolCallId |-> ""] : r \in runs, ph \in {"start", "end", "error"} }
TuiInputs == { [runs |-> TuiRuns, keys |-> {"s", "t"}] }
SmallTuiInputs == { [runs |-> {"A"}, keys |-> {"s", "t"}] }
TuiStarts ==
  { TuiStart(verbose, active, localRuns, MaxEvents) :
      verbose \in {"off", "on", "full"}, active \in TuiRuns \cup {None},
      localRuns \in { {}, {"B"} } }

\* command lines of quotes, backslashes, heredoc operators and newlines
ModeAlphabet == {"<", "E", NL, SQ, DQ, BS}
MaxModeLen == 5

\* command lines that open two heredocs, A then B, each with a bare or a
\* quoted delimiter, before a tail of up to MaxQueueTail characters
QueueAlphabet == {"A", "B", NL, BT}
MaxQueueTail == 5
QueueHeads ==
  { <<"a", "<", "<", "A", "<", "<", "B", NL>>,
    <<"a", "<", "<", "A", "<", "<", SQ, "B", SQ, NL>>,
    <<"a", "<", "<", SQ, "A", SQ, "<", "<", "B", NL>> }

\* the retry loop: the retried errors of a run are at most MaxRetries
MaxRetries == 1

\* the attempts the loop may get back; a prompt error that is no overflow
\* is retried, returned as an error or thrown unless the attempt was aborted
Attempts ==
  { attempt \in [aborted : BOOLEAN, promptError : ErrorKinds, assistantError : ErrorKinds,
                 hasOversized : BOOLEAN, rest : {"ok", "retry", "error"}] :
      (attempt.promptError # None /\ ~attempt.aborted) => attempt.rest # "ok" }

\* one small call of every function, so that each is exercised whatever
\* function the enumerated inputs are for
SmallCalls ==
  \/ ShellCall({<<"a">>}, {Linux})
  \/ ArgvCall
  \/ InputCall("matchAllowlist", SmallAllowInputs)
  \/ InputCall("parseExecArgvToken", SmallTokenInputs)
  \/ InputCall("unwrapEnvInvocation", SmallEnvInputs)
  \/ InputCall("unwrapDispatchWrappersForResolution", SmallDepthInputs)
  \/ InputCall("extractShellWrapperCommand", SmallWrapperInputs)
  \/ InputCall("resolveCommandResolution", SmallResolveInputs)
  \/ InputCall("resolveCommandResolutionFromArgv", SmallResolveArgvInputs)
  \/ InputCall("validateSystemRunCommandConsistency", SmallRunInputs)
  \/ InputCall("buildSafeBinsShellCommand", SmallBuildBinsInputs)
  \/ InputCall("buildSafeShellCommand", SmallBuildInputs)
  \/ InputCall("evaluateShellAllowlist", SmallEvalInputs)
  \/ InputCall("createEventHandlers", SmallTuiInputs)
  \/ InputCall("runEmbeddedPiAgent", {NoInput})

InitWith(commands, platforms) ==
  /\ pc = "call"
  /\ result = NoResult
  /\ tui = QuietTui
  /\ run = NewRun
  /\ (ShellCall(commands, platforms) \/ SmallCalls)

InitInput(name, inputs) ==
  /\ pc = "call"
  /\ result = NoResult
  /\ tui = QuietTui
  /\ run = NewRun
  /\ (InputCall(name, inputs) \/ SmallCalls)

Init == InitWith(Strings(Alphabet, MaxLen), Platforms)
InitChain == InitWith(Strings(ChainAlphabet, MaxChainLen), {Linux})
InitSubst == InitWith(Strings(SubstAlphabet, MaxSubstLen), {Linux})
InitWindows == InitWith(Strings(WinAlphabet, MaxWinLen), WinPlatforms)
InitModes == InitWith(Strings(ModeAlphabet, MaxModeLen), {Linux})
InitQueue ==
  InitWith({h \o t : h \in QueueHeads, t \in Strings(QueueAlphabet, MaxQueueTail)}, {Linux})
InitHeredoc ==
  InitWith({h \o t : h \in HeredocHeads, t \in Strings(TailAlphabet, MaxTail)}, {Linux})
InitAllow == InitInput("matchAllowlist", AllowInputs)
InitGlob == InitInput("matchAllowlist", GlobInputs)
InitToken == InitInput("parseExecArgvToken", TokenInputs)
InitEnv == InitInput("unwrapEnvInvocation", EnvInputs(MaxEnvArgs))
InitResolve ==
  \/ InitInput("resolveCommandResolution", ResolveInputs)
  \/ InitInput("resolveCommandResolutionFromArgv", ResolveArgvInputs)
InitLayered == InitInput("resolveCommandResolutionFromArgv", LayeredInputs)
InitWrapper == InitInput("extractShellWrapperCommand", WrapperInputs(MaxShellArgs))
InitDepth ==
  \/ InitInput("unwrapDispatchWrappersForResolution", DepthInputs)
  \/ InitInput("extractShellWrapperCommand", DepthWrapperInputs)
InitRun == InitInput("validateSystemRunCommandConsistency", RunInputs)
InitBins == InitInput("buildSafeBinsShellCommand", BuildBinsInputs(BuildCommands))
InitBuild ==
  /\ pc = "call"
  /\ result = NoResult
  /\ tui = QuietTui
  /\ run = NewRun
  /\ \/ InputCall("buildSafeShellCommand", BuildInputs)
     \/ InputCall("buildSafeBinsShellCommand", WindowsBinsCalls)
     \/ SmallCalls
InitEval == InitInput("evaluateShellAllowlist", EvalInputs)
InitTui ==
  /\ pc = "call"
  /\ result = NoResult
  /\ run = NewRun
  /\ \/ InputCall("createEventHandlers", TuiInputs) /\ tui \in TuiStarts
     \/ SmallCalls /\ tui = QuietTui
InitLoop == InitInput("runEmbeddedPiAgent", {NoInput})

AnalyzeShellCommand ==
  /\ pc = "call"
  /\ op = "analyzeShellCommand"
  /\ result' = analyzeShellCommand(command, platform)
  /\ pc' = "done"
  /\ UNCHANGED <<op, command, platform, argv, input, tui, run>>

AnalyzeArgvCommand ==
  /\ pc = "call"
  /\ op = "analyzeArgvCommand"
  /\ result' = analyzeArgvCommand(argv)
  /\ pc' = "done"
  /\ UNCHANGED <<op, command, platform, argv, input, tui, run>>

MatchAllowlist ==
  /\ pc = "call"
  /\ op = "matchAllowlist"
  /\ result' = matchAllowlist(input.entries, input.resolution)
  /\ pc' = "done"
  /\ UNCHANGED <<op, command, platform, argv, input, tui, run>>

ParseExecArgvToken ==
  /\ pc = "call"
  /\ op = "parseExecArgvToken"
  /\ result' = parseExecArgvToken(input.raw)
  /\ pc' = "done"
  /\ UNCHANGED <<op, command, platform, argv, input, tui, run>>

UnwrapEnvInvocation ==
  /\ pc = "call"
  /\ op = "unwrapEnvInvocation"
  /\ result' = unwrapEnvInvocation(input.argv)
  /\ pc' = "done"
  /\ UNCHANGED <<op, command, platform, argv, input, tui, run>>

UnwrapDispatchWrappersForResolution ==
  /\ pc = "call"
  /\ op = "unwrapDispatchWrappersForResolution"
  /\ result' = [argv |-> unwrapDispatchWrappersForResolution(input.argv)]
  /\ pc' = "done"
  /\ UNCHANGED <<op, command, platform, argv, input, tui, run>>

ExtractShellWrapperCommand ==
  /\ pc = "call"
  /\ op = "extractShellWrapperCommand"
  /\ result' = extractShellWrapperCommand(input.argv, input.rawCommand)
  /\ pc' = "done"
  /\ UNCHANGED <<op, command, platform, argv, input, tui, run>>

ResolveCommandResolution ==
  /\ pc = "call"
  /\ op = "resolveCommandResolution"
  /\ result' = resolveCommandResolution(input.command, input.cwd, input.env, input.world)
  /\ pc' = "done"
  /\ UNCHANGED <<op, command, platform, argv, input, tui, run>>

ResolveCommandResolutionFromArgv ==
  /\ pc = "call"
  /\ op = "resolveCommandResolutionFromArgv"
  /\ result' = resolveCommandResolutionFromArgv(input.argv, input.cwd, input.env,
                                                 input.world)
  /\ pc' = "done"
  /\ UNCHANGED <<op, command, platform, argv, input, tui, run>>

ValidateSystemRunCommandConsistency ==
  /\ pc = "call"
  /\ op = "validateSystemRunCommandConsistency"
  /\ result' = validateSystemRunCommandConsistency(input.argv, input.rawCommand)
  /\ pc' = "done"
  /\ UNCHANGED <<op, command, platform, argv, input, tui, run>>

BuildSafeBinsShellCommand ==
  /\ pc = "call"
  /\ op = "buildSafeBinsShellCommand"
  /\ result' = buildSafeBinsShellCommand(input.command, input.segments,
                                        input.segmentSatisfiedBy, input.platform)
  /\ pc' = "done"
  /\ UNCHANGED <<op, command, platform, argv, input, tui, run>>

BuildSafeShellCommand ==
  /\ pc = "call"
  /\ op = "buildSafeShellCommand"
  /\ result' = buildSafeShellCommand(input.command, input.platform)
  /\ pc' = "done"
  /\ UNCHANGED <<op, command, platform, argv, input, tui, run>>

EvaluateShellAllowlist ==
  /\ pc = "call"
  /\ op = "evaluateShellAllowlist"
  /\ result' = evaluateShellAllowlist(input)
  /\ pc' = "done"
  /\ UNCHANGED <<op, command, platform, argv, input, tui, run>>

\* what the observer knows after the event: a chat event counts when it
\* bears the current session key
Observed(t, evt) ==
  LET same == t.currentSessionKey = t.seenKey
      mine == evt.kind = "chat" /\ evt.sessionKey = t.currentSessionKey
      these(runs, counts) ==
        (IF same THEN runs ELSE {}) \cup (IF counts THEN {evt.runId} ELSE {})
  IN [seenKey |-> t.currentSessionKey,
      chatted |-> these(t.chatted, mine),
      finaled |-> these(t.finaled, mine /\ evt.state = "final"),
      everChatted |-> t.everChatted \cup (IF mine THEN {evt.runId} ELSE {})]

Noted(after, seen, evt) ==
  [after EXCEPT !.last = evt, !.budget = @ - 1,
                !.seenKey = seen.seenKey,
                !.chatted = seen.chatted,
                !.finaled = seen.finaled,
                !.everChatted = seen.everChatted]

Handled(t, after, evt) == Noted(after, Observed(t, evt), evt)

HandleChatEvent ==
  /\ op = "createEventHandlers"
  /\ tui.budget > 0
  /\ \E evt \in ChatEvents(input.runs, input.keys) :
       tui' = Handled(tui, handleChatEvent([tui EXCEPT !.calls = <<>>], evt), evt)
  /\ UNCHANGED <<op, command, platform, argv, input, pc, result, run>>

HandleAgentEvent ==
  /\ op = "createEventHandlers"
  /\ tui.budget > 0
  /\ \E evt \in AgentEvents(input.runs) :
       tui' = Handled(tui, handleAgentEvent([tui EXCEPT !.calls = <<>>], evt), evt)
  /\ UNCHANGED <<op, command, platform, argv, input, pc, result, run>>

\* the user moves to another session: state.currentSessionKey is set, and
\* the active run is cleared or left as it is
SwitchSession ==
  /\ op = "createEventHandlers"
  /\ tui.budget > 0
  /\ \E key \in input.keys \ {tui.currentSessionKey}, clear \in BOOLEAN :
       tui' = [tui EXCEPT !.currentSessionKey = key,
                          !.activeChatRunId = IF clear THEN None ELSE @,
                          !.calls = <<>>,
                          !.last = [kind |-> "switch"],
                          !.budget = @ - 1]
  /\ UNCHANGED <<op, command, platform, argv, input, pc, result, run>>

RunAttempt ==
  /\ op = "runEmbeddedPiAgent"
  /\ run.pc = "attempt"
  /\ \E attempt \in Attempts :
       /\ attempt.rest = "retry" => run.retries < MaxRetries
       /\ run' = AfterAttemptOf(run, attempt)
  /\ UNCHANGED <<op, command, platform, argv, input, pc, result, tui>>

Compact ==
  /\ op = "runEmbeddedPiAgent"
  /\ run.pc = "compact"
  /\ \E compacted \in BOOLEAN : run' = AfterCompaction(run, compacted)
  /\ UNCHANGED <<op, command, platform, argv, input, pc, result, tui>>

Truncate ==
  /\ op = "runEmbeddedPiAgent"
  /\ run.pc = "truncate"
  /\ \E truncated \in BOOLEAN : run' = AfterTruncation(run, truncated)
  /\ UNCHANGED <<op, command, platform, argv, input, pc, result, tui>>

Next ==
  \/ AnalyzeShellCommand
  \/ AnalyzeArgvCommand
  \/ MatchAllowlist
  \/ ParseExecArgvToken
  \/ UnwrapEnvInvocation
  \/ UnwrapDispatchWrappersForResolution
  \/ ExtractShellWrapperCommand
  \/ ResolveCommandResolution
  \/ ResolveCommandResolutionFromArgv
  \/ ValidateSystemRunCommandConsistency
  \/ BuildSafeBinsShellCommand
  \/ BuildSafeShellCommand
  \/ EvaluateShellAllowlist
  \/ HandleChatEvent
  \/ HandleAgentEvent
  \/ SwitchSession
  \/ RunAttempt
  \/ Compact
  \/ Truncate

Spec == Init /\ [][Next]_vars
SpecChain == InitChain /\ [][Next]_vars
SpecSubst == InitSubst /\ [][Next]_vars
SpecHeredoc == InitHeredoc /\ [][Next]_vars
SpecQueue == InitQueue /\ [][Next]_vars
SpecModes == InitModes /\ [][Next]_vars
SpecWindows == InitWindows /\ [][Next]_vars
SpecAllow == InitAllow /\ [][Next]_vars
SpecGlob == InitGlob /\ [][Next]_vars
SpecToken == InitToken /\ [][Next]_vars
SpecEnv == InitEnv /\ [][Next]_vars
SpecDepth == InitDepth /\ [][Next]_vars
SpecWrapper == InitWrapper /\ [][Next]_vars
SpecResolve == InitResolve /\ [][Next]_vars
SpecLayered == InitLayered /\ [][Next]_vars
SpecRun == InitRun /\ [][Next]_vars
SpecBins == InitBins /\ [][Next]_vars
SpecBuild == InitBuild /\ [][Next]_vars
SpecEval == InitEval /\ [][Next]_vars
SpecTui == InitTui /\ [][Next]_vars
\* each await of the loop comes back: the attempt, the compaction and the
\* truncation are promises the loop waits for
SpecLoopFair ==
  /\ InitLoop
  /\ [][Next]_vars
  /\ WF_vars(RunAttempt)
  /\ WF_vars(Compact)
  /\ WF_vars(Truncate)

(***************************************************************************)
(* The shell's own quoting rules, against which the properties are stated. *)
(* Every character of a command line gets one context:                     *)
(*   "N" plain text            "Q" a quote character opening or closing    *)
(*   "S" inside single quotes  "D" inside double quotes                    *)
(*   "B" an escaping backslash "E" escaped by an unquoted backslash        *)
(*   "X" escaped by a backslash inside double quotes                       *)
(* mode is the context the input ends in: "N" closed, "S"/"D" inside an    *)
(* open quote, "E" directly after an unquoted backslash.                   *)
(***************************************************************************)
ShellEscapable == {"$", BT, DQ, BS, NL}

RECURSIVE QuoteScanFrom(_, _, _, _)
QuoteScanFrom(cmd, i, mode, tags) ==
  IF i > Len(cmd) THEN [tags |-> tags, mode |-> mode]
  ELSE LET ch == cmd[i] IN
    CASE mode = "E" -> QuoteScanFrom(cmd, i + 1, "N", Append(tags, "E"))
      [] mode = "X" -> QuoteScanFrom(cmd, i + 1, "D", Append(tags, "X"))
      [] mode = "S" ->
           IF ch = SQ THEN QuoteScanFrom(cmd, i + 1, "N", Append(tags, "Q"))
           ELSE QuoteScanFrom(cmd, i + 1, "S", Append(tags, "S"))
      [] mode = "D" ->
           IF ch = DQ THEN QuoteScanFrom(cmd, i + 1, "N", Append(tags, "Q"))
           ELSE IF ch = BS /\ At(cmd, i + 1) \in ShellEscapable
             THEN QuoteScanFrom(cmd, i + 1, "X", Append(tags, "B"))
           ELSE QuoteScanFrom(cmd, i + 1, "D", Append(tags, "D"))
      [] OTHER ->
           IF ch = SQ THEN QuoteScanFrom(cmd, i + 1, "S", Append(tags, "Q"))
           ELSE IF ch = DQ THEN QuoteScanFrom(cmd, i + 1, "D", Append(tags, "Q"))
           ELSE IF ch = BS THEN QuoteScanFrom(cmd, i + 1, "E", Append(tags, "B"))
           ELSE QuoteScanFrom(cmd, i + 1, "N", Append(tags, "N"))

QuoteScan(cmd) == QuoteScanFrom(cmd, 1, "N", <<>>)
Tags(cmd) == QuoteScan(cmd).tags

\* the command line uses no quoting at all
NoQuoting(cmd) == \A i \in 1..Len(cmd) : cmd[i] \notin {SQ, DQ, BS}

Blank(text) == \A i \in 1..Len(text) : IsSpace(text[i])

\* i starts a chain operator written in plain text
ActiveOperatorAt(cmd, tags, i) ==
  /\ tags[i] = "N"
  /\ \/ cmd[i] = ";"
     \/ cmd[i] \in {"&", "|"} /\ At(cmd, i + 1) = cmd[i]

NoActiveOperator(cmd) ==
  \A i \in 1..Len(cmd) : ~ActiveOperatorAt(cmd, Tags(cmd), i)

ActivePipeAt(cmd, tags, i) == tags[i] = "N" /\ cmd[i] = "|"

\* the texts between the plain-text pipes, in source order
RECURSIVE PipePiecesFrom(_, _, _, _, _)
PipePiecesFrom(cmd, tags, i, cur, acc) ==
  IF i > Len(cmd) THEN Append(acc, cur)
  ELSE IF ActivePipeAt(cmd, tags, i)
    THEN PipePiecesFrom(cmd, tags, i + 1, <<>>, Append(acc, cur))
  ELSE PipePiecesFrom(cmd, tags, i + 1, Append(cur, cmd[i]), acc)

PipePieces(cmd) == PipePiecesFrom(cmd, Tags(cmd), 1, <<>>, <<>>)

\* the texts between the plain-text chain operators, read left to right
RECURSIVE ChainPiecesFrom(_, _, _, _, _)
ChainPiecesFrom(cmd, tags, i, cur, acc) ==
  IF i > Len(cmd) THEN Append(acc, cur)
  ELSE IF ActiveOperatorAt(cmd, tags, i)
    THEN ChainPiecesFrom(cmd, tags, IF cmd[i] = ";" THEN i + 1 ELSE i + 2,
                         <<>>, Append(acc, cur))
  ELSE ChainPiecesFrom(cmd, tags, i + 1, Append(cur, cmd[i]), acc)

ChainPieces(cmd) == ChainPiecesFrom(cmd, Tags(cmd), 1, <<>>, <<>>)

\* the lines of a text, split at line feeds
RECURSIVE LinesFrom(_, _, _, _)
LinesFrom(text, i, cur, acc) ==
  IF i > Len(text) THEN Append(acc, cur)
  ELSE IF text[i] = NL THEN LinesFrom(text, i + 1, <<>>, Append(acc, cur))
  ELSE LinesFrom(text, i + 1, Append(cur, text[i]), acc)

Lines(text) == LinesFrom(text, 1, <<>>, <<>>)

StartsWith(cmd, head) ==
  Len(cmd) >= Len(head) /\ SubSeq(cmd, 1, Len(head)) = head

Rest(cmd, head) == SubSeq(cmd, Len(head) + 1, Len(cmd))

RECURSIVE Flatten(_)
Flatten(groups) ==
  IF groups = <<>> THEN <<>> ELSE Head(groups) \o Flatten(Tail(groups))

\* analyzeShellCommand has returned, in POSIX mode
PosixAnalyzed ==
  pc = "done" /\ op = "analyzeShellCommand" /\ ~isWindowsPlatform(platform)

(***************************************************************************)
(* Properties                                                              *)
(***************************************************************************)

\* C4: every result with ok = false, of analyzeShellCommand in POSIX or
\* Windows mode and of analyzeArgvCommand, has no segments, no chains and a
\* reason that is set and not empty; nothing parsed before the failure is
\* handed back.
C4_FailureIsTotal ==
  ( /\ pc = "done"
    /\ op \in {"analyzeShellCommand", "analyzeArgvCommand"}
    /\ ~result.ok ) =>
    /\ result.segments = <<>>
    /\ ~result.hasChains
    /\ result.chains = <<>>
    /\ result.reason # <<>>
    /\ \A k \in 1..Len(result.reason) : result.reason[k] # ""

\* C4, its case: a chain whose first part analyzes fine on its own and whose
\* later part fails, so segments had been collected when the failure came.
C4_Witness ==
  /\ PosixAnalyzed
  /\ ~result.ok
  /\ LET chain == splitCommandChainWithOperators(command)
     IN /\ chain.found
        /\ Len(chain.parts) >= 2
        /\ analyzeShellCommand(chain.parts[1].part, platform).ok

\* C8: when every "&&", "||" and ";" of a command stands inside single
\* quotes, inside double quotes (also after an escaped double quote) or
\* directly after an unquoted backslash, the chain splitter finds no
\* boundary, the result has no chains, and an accepted command without a
\* plain-text pipe is one segment holding the whole trimmed command.
C8_QuotedOperatorsAreText ==
  (PosixAnalyzed /\ NoActiveOperator(command)) =>
    /\ ~splitCommandChainWithOperators(command).found
    /\ ~result.hasChains
    /\ (result.ok /\ Len(PipePieces(command)) = 1) =>
         /\ Len(result.segments) = 1
         /\ result.segments[1].raw = Trim(command)

\* C8, its case: an accepted single-segment command with a ";" inside
\* double quotes that follows an escaped double quote.
C8_Witness ==
  /\ PosixAnalyzed
  /\ result.ok
  /\ Len(result.segments) = 1
  /\ LET tags == Tags(command)
     IN \E i \in 1..Len(command) :
          /\ command[i] = ";" /\ tags[i] = "D"
          /\ \E j \in 1..(i - 1) : command[j] = DQ /\ tags[j] = "X"

\* every backtick and every "$(" is inert: inside single quotes, or escaped
\* by a backslash inside double quotes
SubstitutionInert(cmd) ==
  LET tags == Tags(cmd)
  IN \A i \in 1..Len(cmd) :
       (cmd[i] = BT \/ (cmd[i] = "$" /\ At(cmd, i + 1) = "("))
         => tags[i] \in {"S", "X"}

\* a pipeline stage that names something: a plain non-blank character or
\* any quoted or escaped character
HasContent(cmd, tags, i) ==
  \/ tags[i] \in {"S", "D", "X"}
  \/ tags[i] = "N" /\ ~IsSpace(cmd[i]) /\ cmd[i] # "|"

RECURSIVE StagesHaveContent(_, _, _, _)
StagesHaveContent(cmd, tags, i, seen) ==
  IF i > Len(cmd) THEN seen
  ELSE IF ActivePipeAt(cmd, tags, i)
    THEN seen /\ StagesHaveContent(cmd, tags, i + 1, FALSE)
  ELSE StagesHaveContent(cmd, tags, i + 1, seen \/ HasContent(cmd, tags, i))

\* a pipeline of words and quoted text with nothing else in it: quotes are
\* closed, plain text is made of word characters, blanks and single pipes,
\* no unquoted backslash is used, and every stage names something
PlainPipeline(cmd) ==
  LET tags == Tags(cmd)
  IN /\ QuoteScan(cmd).mode = "N"
     /\ \A i \in 1..Len(cmd) :
          /\ tags[i] # "E"
          /\ tags[i] = "N" => cmd[i] \in {"a", "b", "E", " ", "$", "|"}
          /\ ActivePipeAt(cmd, tags, i) => At(cmd, i + 1) \notin {"|", "&"}
     /\ StagesHaveContent(cmd, tags, 1, FALSE)

\* C9: a command whose only substitution-like text is inert (backticks or
\* "$(" inside single quotes, or "$" and backtick escaped by a backslash
\* inside double quotes) is accepted, and its segments are exactly the
\* trimmed stages between its pipes, in order.
C9_InertSubstitutionAccepted ==
  (PosixAnalyzed /\ PlainPipeline(command) /\ SubstitutionInert(command)) =>
    /\ result.ok
    /\ ~result.hasChains
    /\ LET pieces == PipePieces(command)
       IN /\ Len(result.segments) = Len(pieces)
          /\ \A k \in 1..Len(pieces) : result.segments[k].raw = Trim(pieces[k])

\* C9, its case: an accepted two-stage pipeline with a backtick inside
\* single quotes.
C9_Witness ==
  /\ PosixAnalyzed
  /\ PlainPipeline(command)
  /\ SubstitutionInert(command)
  /\ result.ok
  /\ Len(result.segments) = 2
  /\ \E i \in 1..Len(command) : command[i] = BT /\ Tags(command)[i] = "S"

\* a backtick or "$(" somewhere in the text
HasSubstitution(text) ==
  \E i \in 1..Len(text) :
    text[i] = BT \/ (text[i] = "$" /\ At(text, i + 1) = "(")

\* C1: in POSIX mode a command with a backtick or "$(" that is unescaped,
\* outside single quotes and outside the body of a quoted-delimiter heredoc
\* is rejected.  Stated for commands that use no quoting at all, where every
\* occurrence is of that kind.
C1_SubstitutionRejected ==
  (PosixAnalyzed /\ NoQuoting(command) /\ HasSubstitution(command))
    => ~result.ok

\* a character a heredoc delimiter word can be made of
WordChar(ch) ==
  ch # None /\ ~IsSpace(ch) /\ ch \notin {"|", "&", ";", "<", ">", SQ, DQ, BS}

RECURSIVE AfterBlanks(_, _)
AfterBlanks(text, i) ==
  IF At(text, i) \in {" ", TAB} THEN AfterBlanks(text, i + 1) ELSE i

\* "<<" or "<<-" at i, followed by a delimiter word
HeredocOperatorAt(text, i) ==
  /\ At(text, i) = "<"
  /\ At(text, i + 1) = "<"
  /\ WordChar(At(text, AfterBlanks(text, IF At(text, i + 2) = "-" THEN i + 3 ELSE i + 2)))

\* ">" at i, or "<" at i that belongs to no heredoc operator with a word
RedirectAt(text, i) ==
  \/ text[i] = ">"
  \/ /\ text[i] = "<"
     /\ ~HeredocOperatorAt(text, i)
     /\ ~HeredocOperatorAt(text, i - 1)

\* C2: in POSIX mode a command with an unquoted, unescaped ">" or with a "<"
\* that is not part of a "<<" / "<<-" followed by a delimiter word is
\* rejected.  Stated for one-line commands that use no quoting, which have
\* no heredoc body to hide the character in.
C2_RedirectRejected ==
  ( /\ PosixAnalyzed
    /\ NoQuoting(command)
    /\ \A i \in 1..Len(command) : command[i] \notin {NL, CR}
    /\ \E i \in 1..Len(command) : RedirectAt(command, i) )
    => ~result.ok

\* a backtick, "$(" or "${" in a heredoc body line that has no backslash
HasExpansion(line) ==
  \E i \in 1..Len(line) :
    line[i] = BT \/ (line[i] = "$" /\ At(line, i + 1) \in {"(", "{"})

\* a complete body line, before any delimiter line, holds an expansion
ExpansionInBody(lines) ==
  \E k \in 1..(Len(lines) - 1) :
    /\ HasExpansion(lines[k])
    /\ \A j \in 1..k : lines[j] # Delim

\* the delimiter line is the last line and the only one
ClosedAtEnd(lines) ==
  /\ lines[Len(lines)] = Delim
  /\ \A k \in 1..(Len(lines) - 1) : lines[k] # Delim

\* C3: after an unquoted heredoc delimiter a body line with an unescaped
\* backtick, "$(" or "${" makes the analysis fail with reason "command
\* substitution in unquoted heredoc"; the same body under a single-quoted or
\* double-quoted delimiter, closed by its delimiter line, is accepted.
C3_HeredocBodyScan ==
  PosixAnalyzed =>
    /\ \A h \in UnquotedHeads :
         (StartsWith(command, h) /\ ExpansionInBody(Lines(Rest(command, h))))
           => /\ ~result.ok
              /\ result.reason = Reason("command substitution in unquoted heredoc")
    /\ \A h \in QuotedHeads :
         ( /\ StartsWith(command, h)
           /\ ExpansionInBody(Lines(Rest(command, h)))
           /\ ClosedAtEnd(Lines(Rest(command, h))) )
           => result.ok

\* C5: pipeline splitting rejects a command with an empty pipeline segment,
\* that is a pipe with only whitespace before it, after it up to the end of
\* input, or between it and the next pipe.  Stated for commands without a
\* plain-text chain operator, so that every plain-text "|" is a pipe and
\* analyzeShellCommand hands the whole command to splitShellPipeline.
C5_EmptySegmentRejected ==
  ( /\ PosixAnalyzed
    /\ NoActiveOperator(command)
    /\ LET pieces == PipePieces(command)
       IN Len(pieces) >= 2 /\ \E k \in 1..Len(pieces) : Blank(pieces[k]) )
    => ~splitShellPipeline(command).ok

\* C6: a plain-text "&&", "||" or ";" with an empty or whitespace-only part
\* on either side makes splitCommandChainWithOperators return null and
\* analyzeShellCommand return ok = false.
C6_EmptyChainPartRejected ==
  ( /\ PosixAnalyzed
    /\ LET pieces == ChainPieces(command)
       IN Len(pieces) >= 2 /\ \E k \in 1..Len(pieces) : Blank(pieces[k]) )
    => /\ ~splitCommandChainWithOperators(command).found
       /\ ~result.ok

\* C7: an accepted command with N >= 1 plain-text chain operators has chains
\* with exactly N + 1 non-empty groups whose concatenation, in order, is
\* segments; an accepted command without one has no chains.
C7_ChainGroups ==
  (PosixAnalyzed /\ result.ok) =>
    LET n == Len(ChainPieces(command)) - 1
    IN IF n >= 1
         THEN /\ result.hasChains
              /\ Len(result.chains) = n + 1
              /\ \A g \in 1..Len(result.chains) : result.chains[g] # <<>>
              /\ Flatten(result.chains) = result.segments
         ELSE ~result.hasChains /\ result.chains = <<>>

\* "<<" somewhere in the text
HasHeredocOperator(text) ==
  \E i \in 1..Len(text) : text[i] = "<" /\ At(text, i + 1) = "<"

\* C10: input that ends inside a single or double quote, directly after an
\* unquoted backslash, or while an opened heredoc has not seen its delimiter
\* line is rejected.
C10_UnterminatedRejected ==
  PosixAnalyzed =>
    /\ (~HasHeredocOperator(command) /\ QuoteScan(command).mode # "N")
         => ~result.ok
    /\ \A h \in UnquotedHeads \cup QuotedHeads :
         ( /\ StartsWith(command, h)
           /\ LET lines == Lines(Rest(command, h))
              IN \A k \in 1..Len(lines) : lines[k] # Delim )
           => ~result.ok

\* analyzeShellCommand has returned, in Windows mode
WindowsAnalyzed ==
  pc = "done" /\ op = "analyzeShellCommand" /\ isWindowsPlatform(platform)

\* the number of double quotes before position i
RECURSIVE QuotesBefore(_, _)
QuotesBefore(cmd, i) ==
  IF i <= 1 THEN 0
  ELSE QuotesBefore(cmd, i - 1) + (IF cmd[i - 1] = DQ THEN 1 ELSE 0)

\* a blank outside every double-quoted run
WinSeparatorAt(cmd, i) == IsSpace(cmd[i]) /\ QuotesBefore(cmd, i) % 2 = 0

\* the words between the separators, quote characters removed; a word with
\* nothing left is no token
RECURSIVE WinWordsFrom(_, _, _, _)
WinWordsFrom(cmd, i, cur, acc) ==
  IF i > Len(cmd) THEN (IF cur = <<>> THEN acc ELSE Append(acc, cur))
  ELSE IF WinSeparatorAt(cmd, i)
    THEN WinWordsFrom(cmd, i + 1, <<>>, IF cur = <<>> THEN acc ELSE Append(acc, cur))
  ELSE IF cmd[i] = DQ THEN WinWordsFrom(cmd, i + 1, cur, acc)
  ELSE WinWordsFrom(cmd, i + 1, Append(cur, cmd[i]), acc)

WinWords(cmd) == WinWordsFrom(cmd, 1, <<>>, <<>>)

\* C11: in Windows mode a command holding one of & | < > ^ ( ) % ! or a
\* line terminator anywhere, also inside double quotes, is rejected, and so
\* is one with an unbalanced double quote; an accepted command is exactly
\* one segment, without chains, whose raw text is the command and whose argv
\* is the command split at blanks outside double quotes with the quote
\* characters removed.
C11_WindowsMode ==
  WindowsAnalyzed =>
    /\ (\E i \in 1..Len(command) :
          command[i] \in {"&", "|", "<", ">", "^", "(", ")", "%", "!", NL, CR})
         => ~result.ok
    /\ (QuotesBefore(command, Len(command) + 1) % 2 = 1) => ~result.ok
    /\ result.ok =>
         /\ Len(result.segments) = 1
         /\ ~result.hasChains
         /\ result.chains = <<>>
         /\ result.segments[1].raw = command
         /\ result.segments[1].argv = WinWords(command)

\* C11, its case: an accepted Windows command of two tokens, one of them a
\* double-quoted run with a blank in it.
C11_Witness ==
  /\ WindowsAnalyzed
  /\ result.ok
  /\ Len(result.segments[1].argv) = 2
  /\ \E k \in 1..2 : \E i \in 1..Len(result.segments[1].argv[k]) :
       result.segments[1].argv[k][i] = " "

\* matchAllowlist has returned
AllowlistMatched == pc = "done" /\ op = "matchAllowlist"

\* C12: matchAllowlist returns an entry only if resolvedPath is set and the
\* entry's trimmed pattern holds a path separator or "~"; for a missing or
\* unresolved resolution, and when every pattern is a bare name, it returns
\* null.
C12_AllowlistNeedsPath ==
  AllowlistMatched =>
    /\ result.found =>
         /\ ~input.resolution.isNull
         /\ input.resolution.resolvedPath # <<>>
         /\ \E k \in 1..Len(input.entries) : input.entries[k] = result.entry
         /\ \E i \in 1..Len(Trim(result.entry.pattern)) :
              Trim(result.entry.pattern)[i] \in {"/", BS, "~"}
    /\ (input.resolution.isNull \/ input.resolution.resolvedPath = <<>>)
         => ~result.found
    /\ (\A k \in 1..Len(input.entries) : \A i \in 1..Len(input.entries[k].pattern) :
          input.entries[k].pattern[i] \notin {"/", BS, "~"})
         => ~result.found

\* C12, its case: an entry is returned although the entry listed before it
\* is a bare name.
C12_Witness ==
  /\ AllowlistMatched
  /\ result.found
  /\ Len(input.entries) = 2
  /\ input.entries[1].pattern = <<"*", "*">>
  /\ result.entry = input.entries[2]

\* the glob reading of a pattern: "**" any characters, "*" any characters
\* but "/", "?" one character, any other character itself in either case,
\* from the first character of the path to the last
RECURSIVE GlobMatch(_, _, _, _)
GlobMatch(pattern, i, path, j) ==
  IF i > Len(pattern) THEN j > Len(path)
  ELSE IF pattern[i] = "*" /\ At(pattern, i + 1) = "*"
    THEN \E j2 \in j..(Len(path) + 1) : GlobMatch(pattern, i + 2, path, j2)
  ELSE IF pattern[i] = "*"
    THEN \E j2 \in j..(Len(path) + 1) :
           /\ \A m \in j..(j2 - 1) : path[m] # "/"
           /\ GlobMatch(pattern, i + 1, path, j2)
  ELSE IF pattern[i] = "?"
    THEN j <= Len(path) /\ GlobMatch(pattern, i + 1, path, j + 1)
  ELSE /\ j <= Len(path)
       /\ LowerChar(pattern[i]) = LowerChar(path[j])
       /\ GlobMatch(pattern, i + 1, path, j + 1)

\* C13: a pattern matches a resolved path exactly when the whole path reads
\* as the pattern, with "*" for a run without "/", "**" for any run, "?"
\* for one character and every other character for itself, in either case.
\* Stated for a list of one entry whose pattern holds a "/" and no blank.
C13_GlobSemantics ==
  (AllowlistMatched /\ Len(input.entries) = 1) =>
    LET pattern == input.entries[1].pattern
        path == input.resolution.resolvedPath
    IN ( /\ \E i \in 1..Len(pattern) : pattern[i] = "/"
         /\ \A i \in 1..Len(pattern) : ~IsSpace(pattern[i]) /\ pattern[i] # "~"
         /\ path # <<>> ) =>
         (result.found <=> GlobMatch(pattern, 1, path, 1))

\* parseExecArgvToken has returned
TokenParsed == pc = "done" /\ op = "parseExecArgvToken"

\* the kind and style a raw string has by the rules, taken in order
TokenClass(raw) ==
  CASE raw = <<>> -> <<"empty", "">>
    [] raw = <<"-", "-">> -> <<"terminator", "">>
    [] raw = <<"-">> -> <<"stdin", "">>
    [] raw # <<>> /\ raw[1] # "-" -> <<"positional", "">>
    [] Len(raw) >= 3 /\ raw[1] = "-" /\ raw[2] = "-" -> <<"option", "long">>
    [] OTHER -> <<"option", "short-cluster">>

\* C14: parseExecArgvToken classifies raw by the rules in order (empty,
\* "--", "-", positional, long option, short cluster); a long option's flag
\* has no "=" when an inline value is given, is the whole raw string
\* without "=" otherwise, and flag, "=" and inlineValue put together are raw;
\* a short cluster is the text after the dash and its flags are "-" and one
\* cluster character each, in order; the token keeps raw.
C14_ArgvTokenRules ==
  TokenParsed =>
    LET raw == input.raw IN
      /\ <<result.kind, result.style>> = TokenClass(raw)
      /\ result.raw = raw
      /\ (result.style = "long" /\ result.hasInlineValue) =>
           /\ result.flag \o <<"=">> \o result.inlineValue = raw
           /\ \A i \in 1..Len(result.flag) : result.flag[i] # "="
      /\ (result.style = "long" /\ ~result.hasInlineValue) =>
           /\ result.flag = raw
           /\ \A i \in 1..Len(raw) : raw[i] # "="
      /\ (result.style = "long") <=> (result.flag # <<>>)
      /\ (result.style = "short-cluster") =>
           /\ <<"-">> \o result.cluster = raw
           /\ Len(result.flags) = Len(result.cluster)
           /\ \A k \in 1..Len(result.cluster) :
                result.flags[k] = <<"-", result.cluster[k]>>
      /\ (result.style # "short-cluster") =>
           (result.cluster = <<>> /\ result.flags = <<>>)

\* C14, its case: a long option whose inline value itself holds an "=".
C14_Witness ==
  /\ TokenParsed
  /\ result.kind = "option"
  /\ result.style = "long"
  /\ result.hasInlineValue
  /\ \E i \in 1..Len(result.inlineValue) : result.inlineValue[i] = "="


(***************************************************************************)
(* env invocations, as env(1) reads its own arguments.                     *)
(***************************************************************************)
EnvUnwrapped == pc = "done" /\ op = "unwrapEnvInvocation"

EnvFlagNames ==
  { <<"-", "i">>, <<"-", "-", "i", "g", "n", "o", "r", "e", "-", "e", "n", "v", "i", "r", "o", "n", "m", "e", "n", "t">>,
    <<"-", "0">>, <<"-", "-", "n", "u", "l", "l">> }
EnvShortOptionNames ==
  { <<"-", "u">>, <<"-", "c">>, <<"-", "s">> }
EnvLongOptionNames ==
  { <<"-", "-", "u", "n", "s", "e", "t">>, <<"-", "-", "c", "h", "d", "i", "r">>,
    <<"-", "-", "s", "p", "l", "i", "t", "-", "s", "t", "r", "i", "n", "g">>, <<"-", "-", "d", "e", "f", "a", "u", "l", "t", "-", "s", "i", "g", "n", "a", "l">>,
    <<"-", "-", "i", "g", "n", "o", "r", "e", "-", "s", "i", "g", "n", "a", "l">>, <<"-", "-", "b", "l", "o", "c", "k", "-", "s", "i", "g", "n", "a", "l">> }

\* NAME=value: a shell variable name, "=", then anything
IsAssignmentWord(token) ==
  LET name == SubSeq(token, 1, IndexOf(token, "=") - 1)
  IN /\ IndexOf(token, "=") > 1
     /\ ~IsDigit(name[1])
     /\ \A k \in 1..Len(name) : IsLetter(name[k]) \/ IsDigit(name[k]) \/ name[k] = "_"

\* what a word is by its own text
EnvWordClass(word) ==
  LET token == toLowerCase(Trim(word))
  IN IF token = <<>> THEN "blank"
     ELSE IF token = <<"-", "-">> \/ token = <<"-">> THEN "end"
     ELSE IF IsAssignmentWord(token) THEN "assignment"
     ELSE IF token[1] # "-" THEN "command"
     ELSE IF token \in EnvFlagNames THEN "flag"
     ELSE IF token \in EnvShortOptionNames \cup EnvLongOptionNames THEN "option"
     ELSE IF \E name \in EnvShortOptionNames : StartsWith(token, name) THEN "attached"
     ELSE IF \E name \in EnvLongOptionNames : StartsWith(token, name \o <<"=">>)
       THEN "attached"
     ELSE "unknown"

\* what each word from position j on is in its place: a word that is not
\* blank and comes next after an option written without its value is that
\* value, whatever its text; every other word is what its text says
RECURSIVE EnvRolesFrom(_, _, _)
EnvRolesFrom(args, j, awaited) ==
  IF j > Len(args) THEN <<>>
  ELSE LET class == EnvWordClass(args[j])
           role == IF class # "blank" /\ awaited THEN "value" ELSE class
       IN <<role>> \o EnvRolesFrom(args, j + 1,
                                   IF class = "blank" THEN awaited ELSE role = "option")

\* the roles of all words; the first one is the env word itself
EnvRoles(args) == <<"env">> \o EnvRolesFrom(args, 2, FALSE)
EnvRole(args, j) == EnvRoles(args)[j]

InnerArgv(args) ==
  LET roles == EnvRoles(args)
      stops == { j \in 2..Len(args) : roles[j] \in {"end", "unknown", "command"} }
      first == CHOOSE j \in stops : \A k \in stops : j <= k
      from == IF roles[first] = "end" THEN first + 1 ELSE first
  IN IF stops = {} THEN NoArgv
     ELSE IF roles[first] = "unknown" \/ from > Len(args) THEN NoArgv
     ELSE [found |-> TRUE, argv |-> SubSeq(args, from, Len(args))]

\* C17: unwrapEnvInvocation skips argv[0], assignments, the flags and the
\* value-taking options, takes the next word as a value only after an option
\* written without "=" and without an attached value, returns the suffix
\* from the first other word or from just after "--" or "-", and returns
\* null on an unknown dash option or when no word is left.
C17_EnvUnwrap == EnvUnwrapped => result = InnerArgv(input.argv)

\* C17, its case: an option takes the next word as its value, and the inner
\* command starts after it.
C17_Witness ==
  /\ EnvUnwrapped
  /\ result.found
  /\ \E j \in 2..Len(input.argv) :
       /\ EnvRole(input.argv, j) = "value"
       /\ EnvWordClass(input.argv[j]) = "command"
       /\ Len(result.argv) < Len(input.argv) - j + 1


(***************************************************************************)
(* Layers of env.  A word names env when its last path component is env;   *)
(* a layer is an env word with the assignments and options it takes.       *)
(***************************************************************************)
DispatchUnwrapped == pc = "done" /\ op = "unwrapDispatchWrappersForResolution"
WrapperExtracted == pc = "done" /\ op = "extractShellWrapperCommand"

NamesEnv(word) ==
  LET token == toLowerCase(Trim(word))
  IN \/ token = EnvName
     \/ /\ Len(token) > Len(EnvName)
        /\ SubSeq(token, Len(token) - Len(EnvName) + 1, Len(token)) = EnvName
        /\ token[Len(token) - Len(EnvName)] \in {"/", BS}

\* the number of env layers in front of the command, and the argv left
\* after the first n of them
RECURSIVE LayerCount(_)
LayerCount(args) ==
  LET inner == InnerArgv(args)
  IN IF args # <<>> /\ NamesEnv(args[1]) /\ inner.found
       THEN 1 + LayerCount(inner.argv) ELSE 0

RECURSIVE StripLayers(_, _)
StripLayers(args, n) ==
  LET inner == InnerArgv(args)
  IN IF n > 0 /\ args # <<>> /\ NamesEnv(args[1]) /\ inner.found
       THEN StripLayers(inner.argv, n - 1) ELSE args

IsSuffix(tail, args) ==
  Len(tail) <= Len(args) /\ SubSeq(args, Len(args) - Len(tail) + 1, Len(args)) = tail

\* C18: unwrapping is bounded by depth 4: the resolver's unwrapper strips
\* the first 4 env layers at most and returns what is left unchanged, even
\* if that still starts with env; the wrapper extractor reports "not a
\* wrapper" when 4 or more env layers stand in front of the command.
C18_DepthBound ==
  LET layers == LayerCount(input.argv)
  IN /\ DispatchUnwrapped =>
          /\ IsSuffix(result.argv, input.argv)
          /\ layers <= MAX_DISPATCH_WRAPPER_DEPTH =>
               result.argv = StripLayers(input.argv, layers)
          /\ layers > MAX_DISPATCH_WRAPPER_DEPTH =>
               /\ result.argv = StripLayers(input.argv, MAX_DISPATCH_WRAPPER_DEPTH)
               /\ NamesEnv(result.argv[1])
     /\ WrapperExtracted =>
          (layers >= MAX_DISPATCH_WRAPPER_DEPTH => result = NotWrapper)

\* C18, its case: a shell with an inline command behind four env layers.
C18_Witness ==
  /\ WrapperExtracted
  /\ LayerCount(input.argv) = MAX_DISPATCH_WRAPPER_DEPTH
  /\ Len(StripLayers(input.argv, MAX_DISPATCH_WRAPPER_DEPTH)) = 3
  /\ ~result.isWrapper


(***************************************************************************)
(* Shell wrappers: a shell named by its last path component, in any case,  *)
(* and the flags that introduce its inline command.                        *)
(***************************************************************************)
LastComponent(word) == AfterLast(toLowerCase(Trim(word)), {"/", BS})

PosixShellNames ==
  { <<"s", "h">>, <<"b", "a", "s", "h">>, <<"z", "s", "h">>, <<"d", "a", "s", "h">>,
    <<"k", "s", "h">>, <<"a", "s", "h">>, <<"f", "i", "s", "h">> }
OtherShellNames ==
  { <<"c", "m", "d">>, <<"c", "m", "d", ".", "e", "x", "e">>,
    <<"p", "o", "w", "e", "r", "s", "h", "e", "l", "l">>, <<"p", "o", "w", "e", "r", "s", "h", "e", "l", "l", ".", "e", "x", "e">>,
    <<"p", "w", "s", "h">>, <<"p", "w", "s", "h", ".", "e", "x", "e">> }
InlineFlags == { <<"-", "c">>, <<"-", "l", "c">>, <<"-", "-", "c", "o", "m", "m", "a", "n", "d">> }

NamesPosixShell(word) == LastComponent(word) \in PosixShellNames
IsInlineFlag(word) == toLowerCase(Trim(word)) \in InlineFlags

\* the positions of an inline flag that a non-blank argument follows
InlineFlagPositions(args) ==
  { i \in 2..(Len(args) - 1) : IsInlineFlag(args[i]) /\ Trim(args[i + 1]) # <<>> }

PosixShellCall ==
  /\ WrapperExtracted
  /\ NamesPosixShell(input.argv[1])
  /\ ~input.rawCommand.found

\* C19 as stated: for a POSIX shell, the inline command is the argument
\* that follows -c, -lc or --command, wherever that flag stands among the
\* shell's arguments.
C19_InlineCommandAnywhere ==
  (PosixShellCall /\ InlineFlagPositions(input.argv) # {}) =>
    /\ result.isWrapper
    /\ \E i \in InlineFlagPositions(input.argv) :
         /\ \A k \in InlineFlagPositions(input.argv) : i <= k
         /\ result.command = Trim(input.argv[i + 1])

\* C19 amended: for a POSIX shell, the call is a wrapper exactly when the
\* flag is the shell's first argument and the second argument is not blank,
\* and the inline command is that second argument, trimmed.
C19_InlineCommandFirst ==
  PosixShellCall =>
    /\ result.isWrapper <=> 2 \in InlineFlagPositions(input.argv)
    /\ result.isWrapper => result.command = Trim(input.argv[3])

\* C19, its case: the flag is the first argument and a command follows.
C19_Witness ==
  /\ PosixShellCall
  /\ 2 \in InlineFlagPositions(input.argv)
  /\ result.isWrapper
  /\ result.command = <<"x">>

NamesWrapper(word) ==
  \/ LastComponent(word) \in PosixShellNames \cup OtherShellNames
  \/ NamesEnv(word)

\* C20: isWrapper is true exactly when the command is neither null nor
\* blank; an executable that is no wrapper, and a shell without an inline
\* command (a flag other than the inline flag, or a blank argument after
\* it), give { isWrapper: false, command: null }.
C20_WrapperHasCommand ==
  WrapperExtracted =>
    /\ result.isWrapper <=> (result.hasCommand /\ Trim(result.command) # <<>>)
    /\ ~result.isWrapper => result = NotWrapper
    /\ ~NamesWrapper(input.argv[1]) => result = NotWrapper
    /\ (NamesPosixShell(input.argv[1]) /\ InlineFlagPositions(input.argv) = {}) =>
         result = NotWrapper

\* C20, its case: a shell whose -c is followed by a blank argument, with a
\* raw command given by the caller.
C20_Witness ==
  /\ WrapperExtracted
  /\ NamesPosixShell(input.argv[1])
  /\ Len(input.argv) = 3
  /\ IsInlineFlag(input.argv[2])
  /\ Trim(input.argv[3]) = <<>>
  /\ input.rawCommand.found
  /\ result = NotWrapper


(***************************************************************************)
(* Resolution, stated on the file system and the search path themselves.   *)
(***************************************************************************)
Resolved ==
  /\ pc = "done"
  /\ op \in {"resolveCommandResolution", "resolveCommandResolutionFromArgv"}
  /\ ~result.isNull

\* a regular file at an absolute path that the user may execute
HoldsExecutable(fs, place) == place \in DOMAIN fs /\ fs[place] = "exec"

HasSeparator(token) == Includes(token, "/") \/ Includes(token, BS)

\* the directory a relative token is taken from
BaseDirectory ==
  IF input.cwd.found /\ Trim(input.cwd.text) # <<>> THEN Trim(input.cwd.text)
  ELSE ProcessCwd

\* the one place a token with a separator names: itself when absolute, under
\* the home directory after "~", else under the base directory
OwnPlace(token) ==
  IF token[1] = "/" THEN token
  ELSE IF token[1] = "~" THEN HomeDir \o Tail(token)
  ELSE IF StartsWith(token, <<".", "/">>)
    THEN BaseDirectory \o SubSeq(token, 2, Len(token))
  ELSE BaseDirectory \o <<"/">> \o token

\* the search path in force: PATH of the given environment, else its Path,
\* else PATH of the process
SearchedPath ==
  CASE input.env.PATH.found -> input.env.PATH.text
    [] ~input.env.PATH.found /\ input.env.Path.found -> input.env.Path.text
    [] OTHER -> IF input.world.processEnv.PATH.found
                  THEN input.world.processEnv.PATH.text ELSE <<>>

SearchedDirectories == SplitOn(SearchedPath, ":")

\* the positions of the directories of the search path that hold the name
HoldingPositions(name) ==
  { i \in 1..Len(SearchedDirectories) :
      /\ SearchedDirectories[i] # <<>>
      /\ HoldsExecutable(input.world.fs, SearchedDirectories[i] \o <<"/">> \o name) }

ExpectedPath(token) ==
  IF HasSeparator(token) THEN
    IF HoldsExecutable(input.world.fs, OwnPlace(token)) THEN OwnPlace(token) ELSE <<>>
  ELSE IF HoldingPositions(token) = {} THEN <<>>
  ELSE LET first == CHOOSE i \in HoldingPositions(token) :
                      \A k \in HoldingPositions(token) : i <= k
       IN SearchedDirectories[first] \o <<"/">> \o token

\* C15: resolvedPath is set only to an existing regular file that the user
\* may execute; a token with a path separator resolves to the place it names
\* or to nothing, whatever the search path holds; a bare name resolves to
\* the first directory of the search path, in order, that holds such a file;
\* executableName is the raw token when nothing qualifies, and the last
\* component of resolvedPath otherwise.
C15_ResolvedPathIsExecutable ==
  Resolved =>
    /\ result.resolvedPath # <<>> => HoldsExecutable(input.world.fs, result.resolvedPath)
    /\ result.resolvedPath = ExpectedPath(result.rawExecutable)
    /\ result.resolvedPath = <<>> => result.executableName = result.rawExecutable
    /\ result.resolvedPath # <<>> =>
         result.executableName = AfterLast(result.resolvedPath, {"/"})

\* C15, its case: the first directory of the search path holds the name as
\* a file that may not be executed, the second one as an executable.
C15_Witness ==
  /\ Resolved
  /\ ~HasSeparator(result.rawExecutable)
  /\ Len(SearchedDirectories) = 2
  /\ SearchedDirectories[1] \o <<"/">> \o result.rawExecutable \in DOMAIN input.world.fs
  /\ input.world.fs[SearchedDirectories[1] \o <<"/">> \o result.rawExecutable] = "file"
  /\ result.resolvedPath = SearchedDirectories[2] \o <<"/">> \o result.rawExecutable


\* the command behind the env layers of an argv, and its own call
LayeredCall ==
  /\ pc = "done"
  /\ op = "resolveCommandResolutionFromArgv"
  /\ LayerCount(input.argv) >= 1
  /\ LayerCount(input.argv) <= MAX_DISPATCH_WRAPPER_DEPTH

InnerCommand == StripLayers(input.argv, MAX_DISPATCH_WRAPPER_DEPTH)

\* C16: an argv of one to four env layers resolves as the command behind
\* them does, with the same working directory and environment: the same
\* rawExecutable, resolvedPath and executableName; a shell behind the layers
\* is itself the resolved executable.
C16_EnvLayersTransparent ==
  LET inner == InnerCommand
  IN LayeredCall =>
       /\ result = resolveCommandResolutionFromArgv(inner, input.cwd, input.env,
                                                    input.world)
       /\ result.rawExecutable = Trim(inner[1])
       /\ NamesPosixShell(inner[1]) => result.resolvedPath = ExpectedPath(Trim(inner[1]))

\* C16, its case: a shell with an inline command behind two env layers and
\* an assignment, found on the search path.
C16_Witness ==
  /\ LayeredCall
  /\ LayerCount(input.argv) = 2
  /\ Len(input.argv) = 6
  /\ NamesPosixShell(InnerCommand[1])
  /\ result.resolvedPath = <<"/", "a", "/", "s", "h">>


(***************************************************************************)
(* system.run requests: the text an argv stands for.  An argument is shown *)
(* bare when it holds neither blank nor double quote, an empty one as "",  *)
(* any other between double quotes with its double quotes escaped.         *)
(***************************************************************************)
RunValidated == pc = "done" /\ op = "validateSystemRunCommandConsistency"

RECURSIVE ShownArgument(_)
ShownArgument(text) ==
  IF text = <<>> THEN <<>>
  ELSE LET ch == text[Len(text)]
       IN ShownArgument(SubSeq(text, 1, Len(text) - 1))
            \o (IF ch = DQ THEN <<BS, ch>> ELSE <<ch>>)

ShownArgv(args) ==
  JoinWith([i \in 1..Len(args) |->
              LET arg == Trim(args[i])
              IN IF arg = <<>> THEN <<DQ, DQ>>
                 ELSE IF \A k \in 1..Len(arg) : ~IsSpace(arg[k]) /\ arg[k] # DQ THEN arg
                 ELSE <<DQ>> \o ShownArgument(arg) \o <<DQ>>], " ")

\* the text a request stands for: the inner command of a shell wrapper,
\* trimmed, else the argv as shown
InferredText ==
  LET wrapped == extractShellWrapperCommand(input.argv, NoText)
  IN IF wrapped.isWrapper THEN Trim(wrapped.command) ELSE ShownArgv(input.argv)

DeclaredRaw == Trim(input.rawCommand.text)

\* C21: validation fails with RAW_COMMAND_MISMATCH exactly when a raw
\* command that is not blank differs, trimmed, from the inferred text; when
\* it succeeds with such a raw command, cmdText is that raw command and is
\* the inferred text.
C21_RawCommandMismatch ==
  RunValidated =>
    /\ ~result.ok <=> (DeclaredRaw # <<>> /\ DeclaredRaw # InferredText)
    /\ ~result.ok => result.code = "RAW_COMMAND_MISMATCH"
    /\ (result.ok /\ DeclaredRaw # <<>>) =>
         (result.cmdText = DeclaredRaw /\ result.cmdText = InferredText)

\* C21, its case: a raw command that is the shown form of an argv with a
\* quoted argument is accepted.
C21_Witness ==
  /\ RunValidated
  /\ result.ok
  /\ DeclaredRaw # <<>>
  /\ Includes(DeclaredRaw, DQ)
  /\ result.cmdText = DeclaredRaw


(***************************************************************************)
(* The safe builders, stated on the shell's own reading of the command:    *)
(* its chain parts, the operators between them, and the stages of each.    *)
(***************************************************************************)
BinsBuilt == pc = "done" /\ op = "buildSafeBinsShellCommand"

\* the plain-text chain operators, read left to right
RECURSIVE ChainOperatorsFrom(_, _, _)
ChainOperatorsFrom(cmd, tags, i) ==
  IF i > Len(cmd) THEN <<>>
  ELSE IF ActiveOperatorAt(cmd, tags, i)
    THEN IF cmd[i] = ";" THEN <<<<";">>>> \o ChainOperatorsFrom(cmd, tags, i + 1)
         ELSE <<<<cmd[i], cmd[i]>>>> \o ChainOperatorsFrom(cmd, tags, i + 2)
  ELSE ChainOperatorsFrom(cmd, tags, i + 1)

ChainOperators(cmd) == ChainOperatorsFrom(cmd, Tags(cmd), 1)

\* the stages of one chain part that are not blank, trimmed
Stages(part) ==
  LET pieces == PipePieces(part)
      kept == SelectSeq(pieces, LAMBDA piece : ~Blank(piece))
  IN [k \in 1..Len(kept) |-> Trim(kept[k])]

\* the stages of every chain part, part by part
StageGroups(cmd) ==
  LET parts == ChainPieces(Trim(cmd))
  IN [g \in 1..Len(parts) |-> Stages(parts[g])]

\* a token between single quotes, each single quote of its own written as
\* quote, double-quoted quote, quote
RECURSIVE SingleQuotedBody(_)
SingleQuotedBody(token) ==
  IF token = <<>> THEN <<>>
  ELSE LET ch == token[Len(token)]
       IN SingleQuotedBody(SubSeq(token, 1, Len(token) - 1))
            \o (IF ch = SQ THEN <<SQ, DQ, SQ, DQ, SQ>> ELSE <<ch>>)

SingleQuoted(token) == <<SQ>> \o SingleQuotedBody(token) \o <<SQ>>
SingleQuotedArgv(args) ==
  JoinWith([i \in 1..Len(args) |-> SingleQuoted(args[i])], " ")

\* the text of a sequence of texts with a separator text between them
RECURSIVE JoinTexts(_, _)
JoinTexts(items, sep) ==
  IF items = <<>> THEN <<>>
  ELSE IF Len(items) = 1 THEN Head(items)
  ELSE Head(items) \o sep \o JoinTexts(Tail(items), sep)

\* the number of stages in the groups before group g
StagesBefore(groups, g) == Len(Flatten(SubSeq(groups, 1, g - 1)))

\* the command rebuilt from the groups, stage k of the whole command shown
\* as shown[k]
Rebuilt(cmd, shown) ==
  LET groups == StageGroups(cmd)
      ops == ChainOperators(Trim(cmd))
      parts == [g \in 1..Len(groups) |->
                  JoinTexts([k \in 1..Len(groups[g]) |->
                               shown[StagesBefore(groups, g) + k]],
                            <<" ", "|", " ">>)
                    \o (IF g <= Len(ops) THEN <<" ">> \o ops[g] \o <<" ">> ELSE <<>>)]
  IN Flatten(parts)

\* every stage of the command, in order
AllStages(cmd) == Flatten(StageGroups(cmd))

\* what each stage is to be shown as by buildSafeBinsShellCommand
ShownForBins ==
  LET stages == AllStages(input.command)
  IN [k \in 1..Len(stages) |->
        IF input.segmentSatisfiedBy[k] = "safeBins"
          THEN SingleQuotedArgv(input.segments[k].argv)
          ELSE stages[k]]

\* C22: an accepted buildSafeBinsShellCommand call gives, stage by stage in
\* order, the single-quoted argv of the supplied segment where the flag is
\* "safeBins" and the stage's own text, trimmed, elsewhere, with " | "
\* between the stages and the command's own chain operators between parts.
C22_OnlySafeBinsQuoted ==
  (BinsBuilt /\ result.ok) => result.command = Rebuilt(input.command, ShownForBins)

\* C22, its case: two stages, the first kept as written with its glob, the
\* second quoted.
C22_Witness ==
  /\ BinsBuilt
  /\ result.ok
  /\ Len(input.segmentSatisfiedBy) = 2
  /\ input.segmentSatisfiedBy[1] = "allowlist"
  /\ input.segmentSatisfiedBy[2] = "safeBins"
  /\ result.command = <<"*", " ", "|", " ", SQ, "a", SQ>>

\* the number of stages the command has
StageCount(cmd) == Len(Flatten(StageGroups(cmd)))

\* C23: buildSafeBinsShellCommand accepts only when the number of segments
\* it parses equals both segments.length and segmentSatisfiedBy.length; on
\* any mismatch it gives ok = false with a reason and no command.
C23_SegmentCountMismatch ==
  BinsBuilt =>
    /\ result.ok =>
         /\ Len(input.segments) = StageCount(input.command)
         /\ Len(input.segmentSatisfiedBy) = StageCount(input.command)
    /\ ~result.ok => (result.reason # <<>> /\ ~result.hasCommand)
    /\ ( \/ Len(input.segments) # Len(input.segmentSatisfiedBy)
         \/ Len(input.segments) # StageCount(input.command) )
         => ~result.ok

\* C23, its case: one flag more than the command has segments.
C23_Witness ==
  /\ BinsBuilt
  /\ ~isWindowsPlatform(input.platform)
  /\ Len(input.segments) = StageCount(input.command)
  /\ Len(input.segmentSatisfiedBy) = Len(input.segments) + 1
  /\ ~result.ok
  /\ result.reason = Reason("segment metadata mismatch")


SafeBuilt == pc = "done" /\ op = "buildSafeShellCommand"

\* every stage shown as its argv tokens, each single-quoted
ShownQuoted ==
  LET stages == AllStages(input.command)
  IN [k \in 1..Len(stages) |-> SingleQuotedArgv(splitShellArgs(stages[k]).tokens)]

\* C24: an accepted buildSafeShellCommand call gives the command with every
\* argv token single-quoted (a single quote inside a token written as
\* quote, double-quoted quote, quote), with the same stages in every chain
\* part and the same chain operators; on a Windows platform both builders
\* give ok = false and no command.
C24_EveryTokenQuoted ==
  /\ (SafeBuilt /\ result.ok) =>
       result.command = Rebuilt(input.command, ShownQuoted)
  /\ ((SafeBuilt \/ BinsBuilt) /\ isWindowsPlatform(input.platform)) =>
       (~result.ok /\ ~result.hasCommand /\ result.command = <<>>)

\* C24, its case: a token holding a single quote, in a chain of pipelines.
C24_Witness ==
  /\ SafeBuilt
  /\ result.ok
  /\ input.command = <<" ", "a", ";", "a", "|", DQ, SQ, DQ, ";", "a", " ", "*">>
  /\ result.command =
       <<SQ, "a", SQ, " ", ";", " ", SQ, "a", SQ, " ", "|", " ", SQ, SQ, DQ, SQ, DQ, SQ, SQ,
         " ", ";", " ", SQ, "a", SQ, " ", SQ, "*", SQ>>


\* the argv of every segment, in order
ArgvOf(segments) == [k \in 1..Len(segments) |-> segments[k].argv]

\* the argv of every segment of every chain group, group by group
GroupingOf(analysis) ==
  [g \in 1..Len(analysis.chains) |-> ArgvOf(analysis.chains[g])]

\* C25: for a command that analyzeShellCommand accepts off Windows, the
\* output of buildSafeShellCommand is accepted too, and its analysis has the
\* same number of segments, the same argv in each and the same chain groups.
C25_RoundTrip ==
  (SafeBuilt /\ ~isWindowsPlatform(input.platform)) =>
    LET before == analyzeShellCommand(input.command, input.platform)
        after == analyzeShellCommand(result.command, input.platform)
    IN before.ok =>
         /\ result.ok
         /\ after.ok
         /\ Len(after.segments) = Len(before.segments)
         /\ ArgvOf(after.segments) = ArgvOf(before.segments)
         /\ after.hasChains = before.hasChains
         /\ GroupingOf(after) = GroupingOf(before)


(***************************************************************************)
(* The allowlist evaluation, stated on the stages of the command text.     *)
(***************************************************************************)
Evaluated == pc = "done" /\ op = "evaluateShellAllowlist"

\* the words of a stage: its text cut at the spaces
StageWords(stage) == SelectSeq(SplitOn(stage, " "), LAMBDA word : word # <<>>)

\* where the executable of a stage is looked for: the word itself when it
\* has a separator, and otherwise the word in the PATH directory
PlaceOf(word) ==
  IF HasSeparator(word) THEN word ELSE input.env.PATH.text \o <<"/">> \o word

IsThere(place) == HoldsExecutable(input.world.fs, place)

\* a stage is covered by the allowlist when an entry is the path of its
\* executable, found or, for a word with a separator, as written
ByAllowlist(word) ==
  /\ HasSeparator(word) \/ IsThere(PlaceOf(word))
  /\ \E i \in 1..Len(input.allowlist) : input.allowlist[i].pattern = PlaceOf(word)

\* a stage is safe-bin usage when its executable is found in a trusted
\* directory under a safe-bin name and no argument names a file
BySafeBin(words) ==
  /\ ~isWindowsPlatform(input.platform)
  /\ IsThere(PlaceOf(words[1]))
  /\ LastComponent(words[1]) \in input.safeBins
  /\ \E dir \in input.trustedSafeBinDirs : PlaceOf(words[1]) = dir \o <<"/">> \o LastComponent(words[1])
  /\ \A i \in 2..Len(words) : words[i] \notin DOMAIN input.world.fs
                                \/ input.world.fs[words[i]] = "none"

\* a stage is auto-allowed when the name of its executable is a skill bin
BySkill(word) ==
  /\ input.autoAllowSkills
  /\ (IF IsThere(PlaceOf(word)) THEN LastComponent(word) ELSE word) \in input.skillBins

StageSatisfied(stage) ==
  LET words == StageWords(stage)
  IN ByAllowlist(words[1]) \/ BySafeBin(words) \/ BySkill(words[1])

ChatHandled == op = "createEventHandlers" /\ tui.last.kind = "chat"
AgentHandled == op = "createEventHandlers" /\ tui.last.kind = "agent"

\* the last handler made this call
Made(name, args) == \E k \in 1..Len(tui.calls) : tui.calls[k] = Call(name, args)
MadeAny(name) == \E k \in 1..Len(tui.calls) : tui.calls[k].name = name

\* the last handler called nothing: not the chat log, not the status line,
\* not the renderer, not the history loader
Ignored == tui.calls = <<>>

\* C27: handleAgentEvent ignores every event of a run that is neither the
\* active chat run nor a run that had a chat event of the current session
\* (finalized or not); a run noted under a session key that has since
\* changed is forgotten, and its agent events are ignored.
C27_UnknownRunIgnored ==
  AgentHandled =>
    ((tui.last.runId # tui.activeChatRunId /\ tui.last.runId \notin tui.chatted)
       => Ignored)

\* C27, its case: a tool event that would be shown, of a run that had a
\* chat event under the session key the user has left.
C27_Witness ==
  /\ AgentHandled
  /\ tui.last.stream = "tool"
  /\ tui.last.phase = "start"
  /\ tui.last.toolCallId # ""
  /\ tui.verboseLevel = "on"
  /\ tui.last.runId \in tui.everChatted
  /\ tui.last.runId \notin tui.chatted
  /\ tui.currentSessionKey = "t"
  /\ tui.activeChatRunId = None
  /\ Ignored

\* the runs that had a chat event of the session the handlers are in
NotedNow == IF tui.currentSessionKey = tui.seenKey THEN tui.chatted ELSE {}

\* the step handles a chat final of another run than the active one, which
\* has had a chat event of this session
OtherRunFinal ==
  /\ op = "createEventHandlers"
  /\ tui'.last.kind = "chat"
  /\ tui'.budget = tui.budget - 1
  /\ tui'.last.state = "final"
  /\ tui.activeChatRunId # None
  /\ tui'.last.runId # tui.activeChatRunId
  /\ tui.activeChatRunId \in NotedNow

\* the step handles a delta with a new text for the active run, which has
\* had a chat event of this session
ActiveRunDelta ==
  /\ op = "createEventHandlers"
  /\ tui'.last.kind = "chat"
  /\ tui'.budget = tui.budget - 1
  /\ tui'.last.state = "delta"
  /\ tui'.last.runId = tui.activeChatRunId
  /\ tui'.last.sessionKey = tui.currentSessionKey
  /\ tui.activeChatRunId \in NotedNow
  /\ tui'.last.message.text # ""
  /\ tui'.last.message.text # tui.streams[tui.activeChatRunId]

ToolAfterFinal ==
  /\ AgentHandled
  /\ tui.last.stream = "tool"
  /\ tui.last.runId \in tui.finaled
  /\ tui.verboseLevel # "off"

InLoop == op = "runEmbeddedPiAgent"
LoopDone == InLoop /\ run.pc = "done"

\* every attempt so far ended in a context overflow that is not a
\* compaction failure, every compaction so far compacted, and no oversized
\* tool results were detected
OnlyOverflows == run.onlyOverflows /\ run.allCompacted /\ ~run.oversizedDetected

\* the counts of a run of overflows never pass three compactions and four
\* prompts, and are exactly these at the return, which is a context_overflow
\* error; a run whose last attempt succeeded has returned without error
OverflowCounts ==
  InLoop =>
    /\ OnlyOverflows => (run.compactions <= 3 /\ run.prompts <= 4)
    /\ (LoopDone /\ OnlyOverflows) =>
         (run.compactions = 3 /\ run.prompts = 4 /\ run.errorKind = "context_overflow")
    /\ run.lastOutcome = "ok" => (LoopDone /\ run.errorKind = None)

\* C30: when every prompt attempt fails with a context overflow that is
\* not a compaction failure, every compaction succeeds and no oversized
\* tool results are detected, the loop compacts exactly 3 times, prompts
\* exactly 4 times and then returns an error of kind context_overflow; when
\* an attempt succeeds the run returns without error; and the run returns.
C30_OverflowCompactionRetries ==
  /\ []OverflowCounts
  /\ InLoop ~> LoopDone

\* C30, its case: four overflowing prompts with three compactions between
\* them, and the context_overflow error returned.
C30_Witness ==
  /\ LoopDone
  /\ OnlyOverflows
  /\ run.prompts = 4
  /\ run.compactions = 3
  /\ run.truncations = 0
  /\ run.errorKind = "context_overflow"


\* the last attempt came back with a context overflow of its own: it was
\* not aborted, and its prompt error is an overflow or, the prompt having
\* gone through, its last assistant message is one
OwnOverflow ==
  /\ ~run.attempt.aborted
  /\ \/ run.attempt.promptError \in OverflowKinds
     \/ run.attempt.promptError = None /\ run.attempt.assistantError \in OverflowKinds

\* the error text the overflow branch reads is a compaction failure
OwnCompactionFailure ==
  \/ run.attempt.promptError = "compaction_failure"
  \/ run.attempt.promptError = None /\ run.attempt.assistantError = "compaction_failure"

\* the loop is in its overflow recovery or has returned from it
InOverflowRecovery ==
  \/ run.pc \in {"compact", "truncate"}
  \/ run.pc = "done" /\ run.errorKind \in {"context_overflow", "compaction_failure"}

\* C31: a context overflow that is a compaction failure never starts an
\* auto-compaction; an attempt whose prompt failed with another error is not
\* taken for an overflow because of an overflow in its last assistant
\* message; and an aborted attempt never enters the overflow recovery.
C31_NoCompactionOnFailureOrStale ==
  (InLoop /\ run.prompts > 0) =>
    /\ run.pc = "compact" => (OwnOverflow /\ ~OwnCompactionFailure)
    /\ InOverflowRecovery => OwnOverflow

\* C31, its case: the only attempt failed at the prompt with a compaction
\* failure, and the run returned that error without compacting.
C31_Witness ==
  /\ LoopDone
  /\ run.prompts = 1
  /\ run.attempt.promptError = "compaction_failure"
  /\ ~run.attempt.aborted
  /\ run.compactions = 0
  /\ run.errorKind = "compaction_failure"


(***************************************************************************)
(* Text after a heredoc.                                                   *)
(***************************************************************************)
\* of the lines after the line that opens a heredoc, one after the first
\* delimiter line holds more than whitespace: a real shell runs it as a
\* command of its own
TextAfterClose(lines) ==
  \E k \in 1..Len(lines) :
    /\ lines[k] = Delim
    /\ \A j \in 1..(k - 1) : lines[j] # Delim
    /\ \E m \in (k + 1)..Len(lines) : ~Blank(lines[m])

\* C32: analyzeShellCommand never accepts a multi-line command in which
\* command text follows a heredoc: once the heredoc has been closed by its
\* delimiter line, any further non-whitespace text on a following line makes
\* the analysis fail instead of being appended to the preceding segment.
C32_NoTextAfterHeredoc ==
  PosixAnalyzed =>
    \A h \in UnquotedHeads \cup QuotedHeads :
      (StartsWith(command, h) /\ TextAfterClose(Lines(Rest(command, h))))
        => ~result.ok


(***************************************************************************)
(* The builder against the analysis.                                       *)
(***************************************************************************)
\* the number of pipeline segments buildSafeShellCommand renders, over its
\* chain parts
RECURSIVE SegmentsSeen(_)
SegmentsSeen(chainParts) ==
  IF chainParts = <<>> THEN 0
  ELSE Len(splitShellPipeline(Head(chainParts).part).segments)
         + SegmentsSeen(Tail(chainParts))

\* the builder and the analysis agree on a command
SameAcceptance(built, analysis, chainParts) ==
  /\ built.ok <=> analysis.ok
  /\ built.ok =>
       /\ Len(chainParts) = (IF analysis.hasChains THEN Len(analysis.chains) ELSE 1)
       /\ SegmentsSeen(chainParts) = Len(analysis.segments)

\* C33: off Windows buildSafeShellCommand returns ok = true for a command
\* if and only if analyzeShellCommand does, and then both see the same number
\* of chain parts and of pipeline segments.
C33_SameAcceptance ==
  (SafeBuilt /\ ~isWindowsPlatform(input.platform)) =>
    SameAcceptance(result, analyzeShellCommand(input.command, input.platform),
                   ChainPartsOrWhole(Trim(input.command)))


(***************************************************************************)
(* The two unwrappers against each other.                                  *)
(***************************************************************************)
\* the argv is a shell with an inline command: a shell name, the inline
\* flag and an argument that is not blank
ShellWithPayload(args) ==
  /\ Len(args) >= 3
  /\ NamesPosixShell(args[1])
  /\ IsInlineFlag(args[2])
  /\ Trim(args[3]) # <<>>

\* C34: the two unwrappers see through the same number of env layers: when
\* unwrapDispatchWrappersForResolution gives an argv whose head is a shell
\* with an inline command, extractShellWrapperCommand on the original argv,
\* without a raw command, reports isWrapper = true with that command.
C34_SameLayersSeenThrough ==
  (WrapperExtracted /\ ~input.rawCommand.found) =>
    LET inner == unwrapDispatchWrappersForResolution(input.argv)
    IN ShellWithPayload(inner) =>
         /\ result.isWrapper
         /\ result.hasCommand
         /\ result.command = Trim(inner[3])


(***************************************************************************)
(* Patterns without a wildcard.                                            *)
(***************************************************************************)
\* a text with every letter in lower case
Folded(text) == [i \in 1..Len(text) |-> LowerChar(text[i])]

\* a pattern with a "/" and without wildcard, blank, "~" or backslash
LiteralPattern(pattern) ==
  /\ \E i \in 1..Len(pattern) : pattern[i] = "/"
  /\ \A i \in 1..Len(pattern) :
       ~IsSpace(pattern[i]) /\ pattern[i] \notin {"*", "?", "~", BS}

\* C35: every character of a pattern other than "*" and "?" is matched
\* literally: a pattern without "*" and "?" matches a resolved path only
\* when the two are equal up to the case of letters, so "." in a pattern
\* matches only ".".  Stated for a list of one entry.
C35_LiteralCharacters ==
  (AllowlistMatched /\ Len(input.entries) = 1) =>
    LET pattern == input.entries[1].pattern
        path == input.resolution.resolvedPath
    IN (LiteralPattern(pattern) /\ path # <<>>) =>
         (result.found <=> Folded(pattern) = Folded(path))


(***************************************************************************)
(* The text against the argv.                                              *)
(***************************************************************************)
\* every argv a request may carry
RunArgvs == ArgvOver(RunHeads, RunWords, MaxRunArgs)

\* no shell wrapper: the text of the request is the argv as shown
NotWrapped(args) == ~extractShellWrapperCommand(args, NoText).isWrapper

\* C36: the text shown determines the argv: formatExecCommand gives two
\* different argv different texts, and a raw command accepted for an argv
\* that is no shell wrapper is accepted for no other such argv.
C36_TextDeterminesArgv ==
  RunValidated =>
    \A other \in RunArgvs :
      /\ formatExecCommand(other) = formatExecCommand(input.argv) => other = input.argv
      /\ ( /\ result.ok
           /\ DeclaredRaw # <<>>
           /\ NotWrapped(input.argv)
           /\ NotWrapped(other)
           /\ validateSystemRunCommandConsistency(other, input.rawCommand).ok )
           => other = input.argv


(***************************************************************************)
(* Several heredocs on one line, as a shell reads them: the bodies follow  *)
(* the line in the order of the operators, each up to its delimiter line.  *)
(***************************************************************************)
Pending(delimiter, quoted) == [delimiter |-> delimiter, quoted |-> quoted]

\* the heredocs a head opens, in order of appearance
OpenedBy(head) ==
  << Pending(<<"A">>, head[4] = SQ), Pending(<<"B">>, head[Len(head) - 1] = SQ) >>

\* the lines from k on read against the queue: every line is held against
\* the delimiter of the first heredoc of the queue only; a complete line
\* that is not this delimiter is scanned for expansions unless this heredoc
\* is quoted.  The outcome is "substitution", "pending" when the lines run
\* out, or "closed" with the index of the line after the last delimiter
RECURSIVE QueueWalk(_, _, _)
QueueWalk(lines, k, queue) ==
  IF queue = <<>> THEN [outcome |-> "closed", next |-> k]
  ELSE IF k > Len(lines) THEN [outcome |-> "pending", next |-> k]
  ELSE IF lines[k] = Head(queue).delimiter THEN QueueWalk(lines, k + 1, Tail(queue))
  ELSE IF k < Len(lines) /\ ~Head(queue).quoted /\ HasExpansion(lines[k])
    THEN [outcome |-> "substitution", next |-> k]
  ELSE QueueWalk(lines, k + 1, queue)

\* nothing follows line k - 1 but the newline that ends it, if that
NothingFrom(lines, k) == k > Len(lines) \/ (k = Len(lines) /\ lines[k] = <<>>)

\* what the analysis is to make of a head and the walk of its lines
QueueVerdict(head, lines, walk) ==
  /\ walk.outcome = "substitution" =>
       /\ ~result.ok
       /\ result.reason = Reason("command substitution in unquoted heredoc")
  /\ walk.outcome = "pending" =>
       /\ ~result.ok
       /\ result.reason = Reason("unterminated heredoc")
  /\ (walk.outcome = "closed" /\ NothingFrom(lines, walk.next)) =>
       /\ result.ok
       /\ Len(result.segments) = 1
       /\ result.segments[1].raw = SubSeq(head, 1, Len(head) - 1)

\* C37: with several heredocs opened on one line, a body line is held
\* only against the delimiter of the earliest heredoc still pending and is
\* scanned for expansions by that heredoc's quoting; the heredocs close in
\* order of appearance, and the command is accepted only if all of them
\* have closed.
C37_HeredocsCloseInOrder ==
  PosixAnalyzed =>
    \A head \in QueueHeads :
      StartsWith(command, head) =>
        QueueVerdict(head, Lines(Rest(command, head)),
                     QueueWalk(Lines(Rest(command, head)), 1, OpenedBy(head)))

\* C37, its case: the delimiter of the second heredoc stands in the body of
\* the first, which is closed after it, and then the second is closed.
C37_Witness ==
  /\ PosixAnalyzed
  /\ command = <<"a", "<", "<", "A", "<", "<", "B", NL, "B", NL, "A", NL, "B">>
  /\ result.ok
  /\ Len(result.segments) = 1


\* the runs whose chat final was handled in the session the handlers are in
FinaledNow == IF tui.currentSessionKey = tui.seenKey THEN tui.finaled ELSE {}

\* the step handles a chat delta or final, of the current session, of a run
\* whose chat final was handled earlier in this session
LaterEventOfFinalized ==
  /\ op = "createEventHandlers"
  /\ tui'.last.kind = "chat"
  /\ tui'.budget = tui.budget - 1
  /\ tui'.last.state \in {"delta", "final"}
  /\ tui'.last.sessionKey = tui.currentSessionKey
  /\ tui'.last.runId \in FinaledNow

\* C38: within one session, a run whose chat final has been handled is in
\* the finalized-run map, and every later chat delta or final of that run
\* is ignored: the handler calls nothing (no updateAssistant, no
\* finalizeAssistant, no requestRender), leaves state.activeChatRunId, the
\* status, the streams and the run maps as they were; so no run is
\* finalized twice in a session.
C38_FinalizedRunIgnored ==
  [][ /\ FinaledNow' \subseteq tui'.finalizedRuns
      /\ LaterEventOfFinalized =>
           /\ tui'.calls = <<>>
           /\ tui'.activeChatRunId = tui.activeChatRunId
           /\ tui'.activityStatus = tui.activityStatus
           /\ tui'.streams = tui.streams
           /\ tui'.finalizedRuns = tui.finalizedRuns
           /\ tui'.sessionRuns = tui.sessionRuns
           /\ tui'.localRunIds = tui.localRunIds
    ]_vars

\* C38, its case: a delta with a text, of a run finalized earlier in this
\* session while it was the active run, has been handled and nothing was
\* called; no run is active.
C38_Witness ==
  /\ ChatHandled
  /\ tui.last.state = "delta"
  /\ tui.last.message.text = "x"
  /\ tui.last.sessionKey = tui.currentSessionKey
  /\ tui.last.runId \in tui.finaled
  /\ tui.last.runId \in tui.finalizedRuns
  /\ tui.activeChatRunId = None
  /\ tui.budget = MaxEvents - 2
  /\ Ignored


\* every attempt so far came back with a context overflow, a compaction
\* failure or not: no attempt was retried for another reason, and the last
\* one overflowed
PersistentOverflow ==
  /\ run.retries = 0
  /\ run.lastOutcome \in OverflowKinds \cup {None}

OverflowErrorReturned ==
  LoopDone /\ run.errorKind \in {"context_overflow", "compaction_failure"}

\* the truncation is tried at most once, the compaction at most 6 times,
\* and the prompt at most 8 times beside the retries for other reasons
RecoveryBounds ==
  InLoop =>
    /\ run.truncations <= 1
    /\ run.compactions <= 2 * MAX_OVERFLOW_COMPACTION_ATTEMPTS
    /\ run.prompts <= 2 * MAX_OVERFLOW_COMPACTION_ATTEMPTS + 2 + run.retries
    /\ run.overflowCompactionAttempts <= MAX_OVERFLOW_COMPACTION_ATTEMPTS
    /\ (LoopDone /\ PersistentOverflow) => OverflowErrorReturned

\* the compaction counter goes down only when a truncation has truncated,
\* and then to 0, with the loop going to its next attempt
ResetByTruncationOnly ==
  (InLoop /\ run'.overflowCompactionAttempts < run.overflowCompactionAttempts) =>
    /\ run.pc = "truncate"
    /\ run'.pc = "attempt"
    /\ run'.truncations = run.truncations + 1
    /\ run'.overflowCompactionAttempts = 0

\* C39: when every attempt overflows the context, the loop returns, and
\* with an error of kind context_overflow or compaction_failure; in every
\* run the truncation of tool results is tried at most once, the counter
\* of compactions is set back to 0 only by a truncation that truncated,
\* and there are at most 6 compactions and, beside retries for other
\* reasons, at most 8 prompt attempts.
C39_OverflowRecoveryTerminates ==
  /\ []RecoveryBounds
  /\ [][ResetByTruncationOnly]_vars
  /\ InLoop ~> (~PersistentOverflow \/ OverflowErrorReturned)

\* C39, its case: eight overflowing prompts, six compactions and one
\* truncation between them, and the context_overflow error returned.
C39_Witness ==
  /\ LoopDone
  /\ PersistentOverflow
  /\ run.prompts = 8
  /\ run.compactions = 6
  /\ run.truncations = 1
  /\ run.toolResultTruncationAttempted
  /\ run.errorKind = "context_overflow"


(***************************************************************************)
(* The scan of splitShellPipeline, iteration by iteration.                 *)
(***************************************************************************)
\* the scan states of splitShellPipeline from s on: before each iteration,
\* and after the last one or at the early return
RECURSIVE ScanTrace(_, _)
ScanTrace(cmd, s) ==
  IF s.returned \/ s.i > Len(cmd) THEN <<s>>
  ELSE <<s>> \o ScanTrace(cmd, PipelineStep(cmd, s))

ActiveModes(s) ==
  { m \in {"inSingle", "inDouble", "escaped", "inHeredocBody"} : s[m] }

\* the iteration from s to t queues a heredoc
Queues(s, t) == Len(t.pendingHeredocs) > Len(s.pendingHeredocs)

ScanModesHold(trace) ==
  \A k \in 1..Len(trace) :
    /\ Cardinality(ActiveModes(trace[k])) <= 1
    /\ trace[k].inHeredocBody => trace[k].pendingHeredocs # <<>>
    /\ (k < Len(trace) /\ Queues(trace[k], trace[k + 1])) => ActiveModes(trace[k]) = {}

\* the command was scanned whole by splitShellPipeline
ScannedWhole ==
  /\ op = "analyzeShellCommand"
  /\ pc = "done"
  /\ ~isWindowsPlatform(platform)
  /\ ~splitCommandChain(command).found

\* C40: before and after every iteration of splitShellPipeline's scan at
\* most one of inSingle, inDouble, escaped and inHeredocBody is set,
\* inHeredocBody is set only with a heredoc pending, and an iteration that
\* queues a heredoc starts with none of the four set.
C40_ScanModesExclusive ==
  ScannedWhole => ScanModesHold(ScanTrace(command, PipelineStart))

\* an escape is open at some iteration of the scan, and a later iteration
\* queues a heredoc
ModesVisited(trace) ==
  \E j, k \in 1..Len(trace) :
    /\ j < k
    /\ ActiveModes(trace[j]) = {"escaped"}
    /\ k < Len(trace) /\ Queues(trace[k], trace[k + 1])

\* C40, its case: a command whose scan goes through an escape and then
\* queues a heredoc.
C40_Witness ==
  /\ ScannedWhole
  /\ ModesVisited(ScanTrace(command, PipelineStart))

====
